---------------------------- MODULE Spec2Model ----------------------------
(***************************************************************************)
(* A model of the clixon-controller device-handle registry                 *)
(* (controller_device_handle.c) and of the CLI plugin's grammar resolver   *)
(* and schema-mount provider (controller_cli.c).                           *)
(*                                                                         *)
(* Pointers are small integers, NULL is 0.  C strings are TLA+ strings,    *)
(* a NULL string pointer is NoStr.                                         *)
(***************************************************************************)
EXTENDS Integers, Sequences, FiniteSets, TLC

(* ------------------------------ bounds --------------------------------- *)
MaxHandles == 3
MaxMsgId == 3
MaxTime == 1
MaxFieldHandles == 1
MaxMods == 2
MaxFetch == 3
MaxNested == 2
MaxFail == 1
MaxCaps == 2
MaxDummy == 2
MaxPtLen == 2

(* ----------------------------- universes ------------------------------- *)
NULL == 0
NoStr == "(null)"
Handles == 1..MaxHandles
Names == {"d1", "d2", "d3"}
LogMsgs == {"timeout"}

(* An RFC 8525 yang-library tree: null for a NULL cxobj pointer, modset for
   a module-set element at its top level, kids for the element children of
   the module-set in document order.  A child is a module with its name leaf
   (NoStr: none) and the rest of its content (rev), or some other element. *)
ModNames == {"A", "B"}
Revs == {1, 2}
NullLib == [null |-> TRUE, modset |-> FALSE, kids |-> <<>>]
BadLib == [null |-> FALSE, modset |-> FALSE, kids |-> <<>>]
Module(n, r) == [tag |-> "module", name |-> n, rev |-> r]
OtherElem == [tag |-> "other", name |-> NoStr, rev |-> 0]
Elems == {Module(n, r) : n \in ModNames, r \in Revs} \cup {OtherElem}
SeqsUpTo(S, n) == UNION {[1..k -> S] : k \in 0..n}
\* module names are the keys of the module list: no two modules share one
WellFormed(kids) ==
    \A i, j \in 1..Len(kids) :
        (i # j /\ kids[i].tag = "module" /\ kids[j].tag = "module")
            => kids[i].name # kids[j].name
ModSet(kids) == [null |-> FALSE, modset |-> TRUE, kids |-> kids]
Inventories == {ModSet(k) : k \in {q \in SeqsUpTo(Elems, MaxMods) : WellFormed(q)}}

(* A pending outgoing message, a cbuf pointer; NoMsg for NULL *)
NoMsg == "(no cbuf)"
Msgs == {"commit", "close-session"}

(* The capabilities tree: null for a NULL cxobj pointer, caps for the bodies
   of its children in document order.  A body is a C string, kept as the
   sequence of its characters. *)
NullCaps == [null |-> TRUE, caps |-> <<>>]
CapBodies == {<<"x">>, <<"x", "?", "p">>, <<"x", "y">>, <<"y", "?", "p">>}
CapNames == {<<"x">>, <<"x", "y">>, <<"y">>, <<"x", "z">>}
CapTrees == {NullCaps} \cup {[null |-> FALSE, caps |-> q] : q \in SeqsUpTo(CapBodies, MaxCaps)}

(* conn_state values (controller_device_state.h), in their enum order *)
ConnStates == <<"CS_CLOSED", "CS_CONNECTING", "CS_SCHEMA_LIST", "CS_SCHEMA_ONE",
                "CS_DEVICE_SYNC", "CS_OPEN", "CS_WRESP", "CS_CLOSING">>
ConnStateSet == {ConnStates[i] : i \in 1..Len(ConnStates)}

VARIABLES
    \* the "client-list" queue of struct controller_device_handle
    alloc,          \* addresses of the handles malloc'ed and not yet freed
    cdh_list,       \* clicon_ptr "client-list": head of the circular queue
    q_next,         \* cdh_qelem.q_next of every handle
    q_prev,         \* cdh_qelem.q_prev of every handle
    \* fields of struct controller_device_handle
    cdh_name,
    cdh_conn_state,
    cdh_conn_time,
    cdh_msg_id,
    cdh_logmsg,
    cdh_yang_lib,
    cdh_tid,
    cdh_socket,
    cdh_sockerr,
    cdh_type,
    cdh_pid,
    cdh_outmsg1,
    cdh_outmsg2,
    cdh_xcaps,
    \* environment
    now,            \* what gettimeofday() reads
    \* observation of the calls made
    call,           \* the last call: its arguments, the state it saw, its result
    ngetinc,        \* per handle: device_handle_msg_id_getinc calls since creation
    \* controller_cli_yang_mount
    recursion,      \* its static int recursion
    mstack,         \* its calls suspended in clicon_rpc_get2, innermost last
    nfetch,         \* clicon_rpc_get2 calls issued so far
    \* the CLI plugin and what it works on
    backend,        \* per device: what the backend knows of it
    started,        \* controller_cli_start has run and returned 0
    ph_list,        \* the cligen handle's list of pt_head: name and parse tree
    mounts,         \* per device: the yang spec mounted for it (NULL: none)
    ys_ref,         \* per yang spec: what yang_ref_inc has counted
    ys_mods,        \* per yang spec: the modules parsed into it
    nspec,          \* yang specs allocated by yspec_new so far
    nfail,          \* library calls that have failed so far
    gentree_expand_all, \* static int gentree_expand_all, set from -g
    notify_socket,  \* clicon_data "controller-transaction-notify-socket"
    client_socket,  \* clicon_client_socket_get(h): the socket of the session
    fds             \* the sockets of the process that are open

queueVars == <<alloc, cdh_list, q_next, q_prev, cdh_name>>
connVars == <<cdh_conn_state, cdh_conn_time, cdh_logmsg>>
msgVars == <<cdh_msg_id, ngetinc>>
libVars == <<cdh_yang_lib>>
ioVars == <<cdh_tid, cdh_socket, cdh_sockerr, cdh_type, cdh_pid, cdh_outmsg1, cdh_outmsg2,
           cdh_xcaps>>
handleVars == <<queueVars, connVars, msgVars, libVars, ioVars, now>>
mountVars == <<recursion, mstack, nfetch>>
cliVars == <<backend, started, ph_list, mounts, ys_ref, ys_mods, nspec, nfail,
             gentree_expand_all, notify_socket, client_socket, fds>>
cliSide == <<mountVars, cliVars>>

(* ------------------------- the handle queue ---------------------------- *)

\* Handles on the queue in q_next order from the head, at most `fuel` of them.
RECURSIVE QueueFrom(_, _)
QueueFrom(c, fuel) ==
    IF c = NULL \/ fuel = 0 THEN <<>>
    ELSE IF q_next[c] = cdh_list THEN <<c>>
    ELSE <<c>> \o QueueFrom(q_next[c], fuel - 1)

\* The queue as a value: the head pointer and the two link fields.
Queue == [head |-> cdh_list, next |-> q_next, prev |-> q_prev]

\* the element is linked before the head and becomes the head
ADDQ_head(elem, q) ==
    IF q.head = NULL
    THEN [head |-> elem,
          next |-> [q.next EXCEPT ![elem] = elem],
          prev |-> [q.prev EXCEPT ![elem] = elem]]
    ELSE [head |-> elem,
          next |-> [q.next EXCEPT ![elem] = q.head, ![q.prev[q.head]] = elem],
          prev |-> [q.prev EXCEPT ![elem] = q.prev[q.head], ![q.head] = elem]]

\* the element is not linked
ADDQ_unlinked(elem, q) == q

\* ADDQ(elem, list): link elem before the head, i.e. at the tail of the
\* circular queue; a NULL list becomes the one-element queue.
ADDQ(elem, q) ==
    IF q.head = NULL
    THEN [head |-> elem,
          next |-> [q.next EXCEPT ![elem] = elem],
          prev |-> [q.prev EXCEPT ![elem] = elem]]
    ELSE [head |-> q.head,
          next |-> [q.next EXCEPT ![elem] = q.head, ![q.prev[q.head]] = elem],
          prev |-> [q.prev EXCEPT ![elem] = q.prev[q.head], ![q.head] = elem]]

\* the head pointer is left where it is when the head is unlinked
DELQ_head(elem, q) ==
    [head |-> IF q.next[elem] = elem THEN NULL ELSE q.head,
     next |-> [q.next EXCEPT ![q.prev[elem]] = q.next[elem], ![elem] = NULL],
     prev |-> [q.prev EXCEPT ![q.next[elem]] = q.prev[elem], ![elem] = NULL]]

\* DELQ(elem, list, type): unlink elem; the head becomes NULL when elem was
\* the only element and moves to elem's successor when elem was the head.
\* The links of the unlinked (then freed) element read NULL.
DELQ(elem, q) ==
    [head |-> IF q.next[elem] = elem THEN NULL
              ELSE IF elem = q.head THEN q.next[elem]
              ELSE q.head,
     next |-> [q.next EXCEPT ![q.prev[elem]] = q.next[elem], ![elem] = NULL],
     prev |-> [q.prev EXCEPT ![q.next[elem]] = q.prev[elem], ![elem] = NULL]]

\* device_handle_find: do { strcmp } while (c && c != cdh_list)
RECURSIVE FindFrom(_, _, _)
FindFrom(c, name, fuel) ==
    IF c = NULL \/ fuel = 0 THEN NULL
    ELSE IF cdh_name[c] = name THEN c
    ELSE IF q_next[c] = cdh_list THEN NULL
    ELSE FindFrom(q_next[c], name, fuel - 1)

\* the scan written as while (c && c != cdh_list): it never looks at the head
device_handle_find_while(name) ==
    IF cdh_list = NULL \/ q_next[cdh_list] = cdh_list THEN NULL
    ELSE FindFrom(q_next[cdh_list], name, MaxHandles + 1)

device_handle_find(name) == FindFrom(cdh_list, name, MaxHandles + 1)

\* device_handle_each(h, dhprev)
device_handle_each(dhprev) ==
    IF dhprev = NULL THEN cdh_list
    ELSE IF q_next[dhprev] = cdh_list THEN NULL
    ELSE q_next[dhprev]

\* the handles a caller sees with
\*   dh = NULL; while ((dh = device_handle_each(h, dh)) != NULL) ...
RECURSIVE EachFrom(_, _)
EachFrom(dhprev, fuel) ==
    LET dh == device_handle_each(dhprev)
    IN IF dh = NULL \/ fuel = 0 THEN <<>>
       ELSE <<dh>> \o EachFrom(dh, fuel - 1)

Iterated == EachFrom(NULL, MaxHandles + 1)

Range(s) == {s[i] : i \in 1..Len(s)}

(* ------------------------------ Init ----------------------------------- *)

HandleInit ==
    /\ alloc = {}
    /\ cdh_list = NULL
    /\ q_next = [h \in Handles |-> NULL]
    /\ q_prev = [h \in Handles |-> NULL]
    /\ cdh_name = [h \in Handles |-> NoStr]
    /\ cdh_conn_state = [h \in Handles |-> "CS_CLOSED"]
    /\ cdh_conn_time = [h \in Handles |-> 0]
    /\ cdh_msg_id = [h \in Handles |-> 0]
    /\ cdh_logmsg = [h \in Handles |-> NoStr]
    /\ cdh_yang_lib = [h \in Handles |-> NullLib]
    /\ cdh_tid = [h \in Handles |-> 0]
    /\ cdh_socket = [h \in Handles |-> 0]
    /\ cdh_sockerr = [h \in Handles |-> 0]
    /\ cdh_type = [h \in Handles |-> "CLIXON_CLIENT_IPC"]
    /\ cdh_pid = [h \in Handles |-> 0]
    /\ cdh_outmsg1 = [h \in Handles |-> NoMsg]
    /\ cdh_outmsg2 = [h \in Handles |-> NoMsg]
    /\ cdh_xcaps = [h \in Handles |-> NullCaps]
    /\ ngetinc = [h \in Handles |-> 0]
    /\ now = 0
    /\ call = [op |-> "none"]

(* --------------------------- store actions ----------------------------- *)

\* device_handle_new(h, name): malloc + memset 0, socket -1, CS_CLOSED,
\* strdup(name), then ADDQ to "client-list".  No check of the name.
device_handle_new(cdh, name) ==
    /\ cdh \in Handles \ alloc
    /\ alloc' = alloc \cup {cdh}
    /\ cdh_name' = [cdh_name EXCEPT ![cdh] = name]
    /\ cdh_conn_state' = [cdh_conn_state EXCEPT ![cdh] = "CS_CLOSED"]
    /\ cdh_conn_time' = [cdh_conn_time EXCEPT ![cdh] = 0]
    /\ cdh_msg_id' = [cdh_msg_id EXCEPT ![cdh] = 0]
    /\ cdh_logmsg' = [cdh_logmsg EXCEPT ![cdh] = NoStr]
    /\ cdh_yang_lib' = [cdh_yang_lib EXCEPT ![cdh] = NullLib]
    /\ cdh_tid' = [cdh_tid EXCEPT ![cdh] = 0]
    /\ cdh_socket' = [cdh_socket EXCEPT ![cdh] = -1]
    /\ cdh_sockerr' = [cdh_sockerr EXCEPT ![cdh] = -1]
    /\ cdh_type' = [cdh_type EXCEPT ![cdh] = "CLIXON_CLIENT_IPC"]
    /\ cdh_pid' = [cdh_pid EXCEPT ![cdh] = 0]
    /\ cdh_outmsg1' = [cdh_outmsg1 EXCEPT ![cdh] = NoMsg]
    /\ cdh_outmsg2' = [cdh_outmsg2 EXCEPT ![cdh] = NoMsg]
    /\ cdh_xcaps' = [cdh_xcaps EXCEPT ![cdh] = NullCaps]
    /\ ngetinc' = [ngetinc EXCEPT ![cdh] = 0]
    /\ LET q == ADDQ(cdh, Queue)
       IN /\ cdh_list' = q.head
          /\ q_next' = q.next
          /\ q_prev' = q.prev
    /\ call' = [op |-> "new", dh |-> cdh, name |-> name,
                unique |-> (device_handle_find(name) = NULL)]
    /\ UNCHANGED <<now, cliSide>>

\* device_handle_free1 on each of `freed`: a freed block reads as after memset
Freed(f, freed, zero) == [h \in Handles |-> IF h \in freed THEN zero ELSE f[h]]

FreedFields(freed) ==
    /\ cdh_name' = Freed(cdh_name, freed, NoStr)
    /\ cdh_conn_state' = Freed(cdh_conn_state, freed, "CS_CLOSED")
    /\ cdh_conn_time' = Freed(cdh_conn_time, freed, 0)
    /\ cdh_msg_id' = Freed(cdh_msg_id, freed, 0)
    /\ cdh_logmsg' = Freed(cdh_logmsg, freed, NoStr)
    /\ cdh_yang_lib' = Freed(cdh_yang_lib, freed, NullLib)
    /\ cdh_tid' = Freed(cdh_tid, freed, 0)
    /\ cdh_socket' = Freed(cdh_socket, freed, 0)
    /\ cdh_sockerr' = Freed(cdh_sockerr, freed, 0)
    /\ cdh_type' = Freed(cdh_type, freed, "CLIXON_CLIENT_IPC")
    /\ cdh_pid' = Freed(cdh_pid, freed, 0)
    /\ cdh_outmsg1' = Freed(cdh_outmsg1, freed, NoMsg)
    /\ cdh_outmsg2' = Freed(cdh_outmsg2, freed, NoMsg)
    /\ cdh_xcaps' = Freed(cdh_xcaps, freed, NullCaps)
    /\ ngetinc' = Freed(ngetinc, freed, 0)

\* device_handle_free(dh): search the queue for dh, DELQ it, free it
device_handle_free(cdh) ==
    /\ cdh \in alloc
    /\ IF cdh \in Range(QueueFrom(cdh_list, MaxHandles + 1))
       THEN LET q == DELQ(cdh, Queue)
            IN /\ cdh_list' = q.head
               /\ q_next' = q.next
               /\ q_prev' = q.prev
               /\ alloc' = alloc \ {cdh}
               /\ FreedFields({cdh})
       ELSE UNCHANGED <<queueVars, connVars, msgVars, libVars, ioVars>>
    /\ call' = [op |-> "free", dh |-> cdh, name |-> cdh_name[cdh],
                before |-> Iterated]
    /\ UNCHANGED <<now, cliSide>>

\* the loop written as an if: only the head is freed
FreeAllLoop_once(q, freed, fuel) ==
    IF q.head = NULL \/ fuel = 0 THEN [q |-> q, freed |-> freed]
    ELSE [q |-> DELQ(q.head, q), freed |-> freed \cup {q.head}]

\* device_handle_free_all(h): while ((c = cdh_list) != NULL) { DELQ; free1 }
\* The loop as a function of the queue: the queue left and the handles freed.
RECURSIVE FreeAllLoop(_, _, _)
FreeAllLoop(q, freed, fuel) ==
    IF q.head = NULL \/ fuel = 0 THEN [q |-> q, freed |-> freed]
    ELSE FreeAllLoop(DELQ(q.head, q), freed \cup {q.head}, fuel - 1)

device_handle_free_all ==
    /\ alloc # {}
    /\ LET r == FreeAllLoop(Queue, {}, MaxHandles + 1)
       IN /\ cdh_list' = r.q.head
          /\ q_next' = r.q.next
          /\ q_prev' = r.q.prev
          /\ alloc' = alloc \ r.freed
          /\ FreedFields(r.freed)
    /\ call' = [op |-> "free_all", before |-> Iterated]
    /\ UNCHANGED <<now, cliSide>>

Create == \E cdh \in Handles, name \in Names : device_handle_new(cdh, name)

\* Create as the callers use it: only for a name device_handle_find does not know
CreateUnique ==
    \E cdh \in Handles, name \in Names :
        /\ device_handle_find(name) = NULL
        /\ device_handle_new(cdh, name)

\* Create for the one device d1
CreateD1 ==
    \E cdh \in Handles :
        /\ device_handle_find("d1") = NULL
        /\ device_handle_new(cdh, "d1")

\* ... and for at most MaxFieldHandles devices
CreateFew ==
    /\ Cardinality(alloc) < MaxFieldHandles
    /\ CreateUnique

Remove == \E cdh \in Handles : device_handle_free(cdh)

Clear == device_handle_free_all

(* ------------------------- accessor actions ---------------------------- *)

\* device_handle_msg_id_getinc: return cdh->cdh_msg_id++
\* return ++cdh->cdh_msg_id
msg_id_getinc_ret_pre(cdh) == cdh_msg_id[cdh] + 1

msg_id_getinc_ret(cdh) == cdh_msg_id[cdh]

\* (a uint64_t: it wraps at 2^64, which no run below MaxMsgId calls reaches)
msg_id_getinc_new(cdh) == [cdh_msg_id EXCEPT ![cdh] = @ + 1]

MsgIdGetInc ==
    \E cdh \in alloc :
        /\ cdh_msg_id[cdh] < MaxMsgId
        /\ cdh_msg_id' = msg_id_getinc_new(cdh)
        /\ ngetinc' = [ngetinc EXCEPT ![cdh] = @ + 1]
        /\ call' = [op |-> "msg_id_getinc", dh |-> cdh, ret |-> msg_id_getinc_ret(cdh),
                    before |-> cdh_msg_id]
        /\ UNCHANGED <<queueVars, connVars, libVars, ioVars, now, cliSide>>

\* device_handle_conn_time_set(dh, NULL): gettimeofday(&cdh->cdh_conn_time)
conn_time_set(cdh) == [cdh_conn_time EXCEPT ![cdh] = now]

\* device_handle_conn_state_set: free logmsg when the current state is
\* CS_CLOSED, store the state, stamp the time
\* the test made on the state entered instead of the state left
conn_state_set_logmsg_entered(cdh, state) ==
    IF state = "CS_CLOSED" /\ cdh_logmsg[cdh] # NoStr
    THEN [cdh_logmsg EXCEPT ![cdh] = NoStr]
    ELSE cdh_logmsg

conn_state_set_logmsg(cdh, state) ==
    IF cdh_conn_state[cdh] = "CS_CLOSED" /\ cdh_logmsg[cdh] # NoStr
    THEN [cdh_logmsg EXCEPT ![cdh] = NoStr]
    ELSE cdh_logmsg

device_handle_conn_state_set(cdh, state) ==
    /\ cdh \in alloc
    /\ state \in ConnStateSet      \* assert(device_state_int2str(state)!=NULL)
    /\ cdh_logmsg' = conn_state_set_logmsg(cdh, state)
    /\ cdh_conn_state' = [cdh_conn_state EXCEPT ![cdh] = state]
    /\ cdh_conn_time' = conn_time_set(cdh)
    /\ call' = [op |-> "conn_state_set", dh |-> cdh, state |-> state,
                from |-> cdh_conn_state[cdh], logmsg |-> cdh_logmsg[cdh]]
    /\ UNCHANGED <<queueVars, msgVars, libVars, ioVars, now, cliSide>>

ConnStateSetCall ==
    \E cdh \in alloc, state \in ConnStateSet : device_handle_conn_state_set(cdh, state)

\* device_handle_logmsg_set(dh, logmsg): free the old one, store the new
device_handle_logmsg_set(cdh, logmsg) ==
    /\ cdh \in alloc
    /\ cdh_logmsg' = [cdh_logmsg EXCEPT ![cdh] = logmsg]
    /\ call' = [op |-> "logmsg_set", dh |-> cdh, logmsg |-> logmsg]
    /\ UNCHANGED <<queueVars, cdh_conn_state, cdh_conn_time, msgVars, libVars, ioVars, now, cliSide>>

LogmsgSet ==
    \E cdh \in alloc, logmsg \in LogMsgs \cup {NoStr} : device_handle_logmsg_set(cdh, logmsg)

\* xml_tree_equal(x0, x1) == 0: the two trees are equal child by child
xml_tree_equal(x0, x1) == x0 = x1

\* xpath_first(xms0, NULL, "module[name='%s']", name): index of the first
\* module child with that name, 0 for none
RECURSIVE FirstModule(_, _, _)
FirstModule(kids, name, i) ==
    IF i > Len(kids) THEN 0
    ELSE IF kids[i].tag = "module" /\ kids[i].name = name THEN i
    ELSE FirstModule(kids, name, i + 1)

\* a stored module that differs from the argument's is left as it is
MergeOne_skip(kids0, xm1) ==
    IF xm1.tag # "module" THEN kids0
    ELSE IF xm1.name = NoStr THEN kids0
    ELSE IF FirstModule(kids0, xm1.name, 1) # 0 THEN kids0
    ELSE Append(kids0, xm1)

\* a stored module that differs is not replaced: the argument's is added
MergeOne_dup(kids0, xm1) ==
    IF xm1.tag # "module" THEN kids0
    ELSE IF xm1.name = NoStr THEN kids0
    ELSE LET j == FirstModule(kids0, xm1.name, 1)
         IN IF j # 0 /\ xml_tree_equal(kids0[j], xm1) THEN kids0
            ELSE Append(kids0, xm1)

\* the body of the while loop over the children xm1 of the argument's
\* module-set, on the stored module-set's children kids0
MergeOne(kids0, xm1) ==
    IF xm1.tag # "module" THEN kids0            \* not a module: continue
    ELSE IF xm1.name = NoStr THEN kids0         \* no name: continue
    ELSE LET j == FirstModule(kids0, xm1.name, 1)
         IN IF j # 0
            THEN IF ~xml_tree_equal(kids0[j], xm1)
                 THEN [kids0 EXCEPT ![j] = xm1] \* xml_rm_children + xml_copy
                 ELSE kids0
            ELSE Append(kids0, xm1)             \* xml_dup + xml_addsub

RECURSIVE MergeLoop(_, _, _)
MergeLoop(kids0, kids1, i) ==
    IF i > Len(kids1) THEN kids0
    ELSE MergeLoop(MergeOne(kids0, kids1[i]), kids1, i + 1)

\* device_handle_yang_lib_append(dh, xylib) on the stored tree lib0:
\* the tree stored afterwards and the return value
yang_lib_append(lib0, xylib) ==
    IF ~xylib.null /\ ~xylib.modset
    THEN [lib |-> lib0, ret |-> -1]             \* top-level not module-set
    ELSE IF ~lib0.null
    THEN IF ~xylib.null
         THEN IF ~lib0.modset
              THEN [lib |-> lib0, ret |-> -1]
              ELSE IF ~xml_tree_equal(lib0.kids, xylib.kids)
              THEN [lib |-> ModSet(MergeLoop(lib0.kids, xylib.kids, 1)), ret |-> 0]
              ELSE [lib |-> lib0, ret |-> 0]
         ELSE [lib |-> lib0, ret |-> 0]
    ELSE [lib |-> xylib, ret |-> 0]             \* nothing stored: take xylib

YangLibAppend ==
    \E cdh \in alloc, xylib \in Inventories \cup {NullLib, BadLib} :
        LET r == yang_lib_append(cdh_yang_lib[cdh], xylib)
        IN /\ cdh_yang_lib' = [cdh_yang_lib EXCEPT ![cdh] = r.lib]
           /\ call' = [op |-> "yang_lib_append", dh |-> cdh, arg |-> xylib,
                       before |-> cdh_yang_lib[cdh], ret |-> r.ret]
           /\ UNCHANGED <<queueVars, connVars, msgVars, ioVars, now, cliSide>>

\* device_handle_yang_lib_set(dh, xylib): free the stored tree, store xylib.
\* A non-NULL xylib passes assert(xml_find_type(xylib, NULL, "module-set", ..)).
YangLibSet ==
    \E cdh \in alloc, xylib \in Inventories \cup {NullLib} :
        /\ xylib.null \/ xylib.modset
        /\ cdh_yang_lib' = [cdh_yang_lib EXCEPT ![cdh] = xylib]
        /\ call' = [op |-> "yang_lib_set", dh |-> cdh, arg |-> xylib,
                    before |-> cdh_yang_lib[cdh], ret |-> 0]
        /\ UNCHANGED <<queueVars, connVars, msgVars, ioVars, now, cliSide>>

\* abort(3), raised by an assert that fails, ends the process: no call follows
Aborted == call.op = "abort"

\* device_handle_yang_lib_set(dh, xylib) with a non-NULL xylib that has no
\* module-set child. In a build with assertions the assert fails and the
\* process aborts; in a build with NDEBUG the assert is compiled out, the
\* stored tree is freed and xylib is stored, and the call returns 0.
YangLibSetNoModuleSet ==
    \E cdh \in alloc, ndebug \in BOOLEAN :
        /\ ~Aborted
        /\ IF ndebug
           THEN /\ cdh_yang_lib' = [cdh_yang_lib EXCEPT ![cdh] = BadLib]
                /\ call' = [op |-> "yang_lib_set", dh |-> cdh, arg |-> BadLib,
                            before |-> cdh_yang_lib[cdh], ret |-> 0]
           ELSE /\ cdh_yang_lib' = cdh_yang_lib
                /\ call' = [op |-> "abort", dh |-> cdh, arg |-> BadLib,
                            before |-> cdh_yang_lib[cdh]]
        /\ UNCHANGED <<queueVars, connVars, msgVars, ioVars, now, cliSide>>

\* the calls of a process that has not aborted
YangLibSetRunning == ~Aborted /\ YangLibSet

CreateD1Running == ~Aborted /\ CreateD1

YangLibAppendRunning == ~Aborted /\ YangLibAppend

\* Characters of C strings: the character at position i (from 1), NUL at
\* and after the terminator
NUL == "NUL"
CharAt(str, i) == IF i <= Len(str) THEN str[i] ELSE NUL

\* index(b, '?'): the position of the first '?' in b, 0 for NULL
RECURSIVE index(_, _, _)
index(b, ch, i) ==
    IF i > Len(b) THEN 0
    ELSE IF b[i] = ch THEN i
    ELSE index(b, ch, i + 1)

\* strncmp(s1, s2, n) from position i on: 0 when the strings agree in their
\* first n characters or up to a common terminator, else 1
RECURSIVE strncmp(_, _, _, _)
strncmp(s1, s2, n, i) ==
    IF i > n THEN 0
    ELSE IF CharAt(s1, i) # CharAt(s2, i) THEN 1
    ELSE IF CharAt(s1, i) = NUL THEN 0
    ELSE strncmp(s1, s2, n, i + 1)

strcmp(s1, s2) == strncmp(s1, s2, Len(s1) + Len(s2) + 1, 1)

\* the body of the while loop of device_handle_capabilities_find: break?
CapabilityMatch(name, b) ==
    LET bi == index(b, "?", 1)
    IN IF bi # 0 THEN strncmp(name, b, bi - 1, 1) = 0
       ELSE strcmp(name, b) = 0

\* the loop over the children of cdh_xcaps from the i-th on: the child at
\* which it breaks, 0 for x == NULL
RECURSIVE CapabilitiesFindFrom(_, _, _)
CapabilitiesFindFrom(caps, name, i) ==
    IF i > Len(caps) THEN 0
    ELSE IF CapabilityMatch(name, caps[i]) THEN i
    ELSE CapabilitiesFindFrom(caps, name, i + 1)

\* device_handle_capabilities_find(dh, name): return x?1:0
device_handle_capabilities_find(cdh, name) ==
    IF CapabilitiesFindFrom(cdh_xcaps[cdh].caps, name, 1) # 0 THEN 1 ELSE 0

CapabilitiesFind ==
    \E cdh \in alloc, name \in CapNames :
        /\ call' = [op |-> "capabilities_find", dh |-> cdh, name |-> name,
                    ret |-> device_handle_capabilities_find(cdh, name)]
        /\ UNCHANGED <<handleVars, cliSide>>

\* device_handle_capabilities_set(dh, xcaps): free the stored tree, store xcaps
CapabilitiesSet ==
    \E cdh \in alloc, xcaps \in CapTrees :
        /\ cdh_xcaps' = [cdh_xcaps EXCEPT ![cdh] = xcaps]
        /\ call' = [op |-> "capabilities_set", dh |-> cdh]
        /\ UNCHANGED <<queueVars, connVars, msgVars, libVars, cdh_tid, cdh_socket,
                       cdh_sockerr, cdh_type, cdh_pid, cdh_outmsg1, cdh_outmsg2, now,
                       cliSide>>

\* device_handle_outmsg_get(dh, nr)
device_handle_outmsg_get(cdh, nr) ==
    IF nr = 1 THEN cdh_outmsg1[cdh]
    ELSE IF nr = 2 THEN cdh_outmsg2[cdh]
    ELSE NoMsg

OutmsgGet ==
    \E cdh \in alloc, nr \in 0..3 :
        /\ call' = [op |-> "outmsg_get", dh |-> cdh, nr |-> nr,
                    ret |-> device_handle_outmsg_get(cdh, nr)]
        /\ UNCHANGED <<handleVars, cliSide>>

\* message #1 is stored whichever of the two numbers is given
outmsg1_set_any(cdh, nr, cb) ==
    IF nr = 1 \/ nr = 2 THEN [cdh_outmsg1 EXCEPT ![cdh] = cb] ELSE cdh_outmsg1

\* device_handle_outmsg_set, `if (nr == 1)`: cbuf_free of the pending
\* message #1, then cdh_outmsg1 = cb
outmsg1_set(cdh, nr, cb) ==
    IF nr = 1 THEN [cdh_outmsg1 EXCEPT ![cdh] = cb] ELSE cdh_outmsg1

\* `else if (nr == 2)`
outmsg2_set(cdh, nr, cb) ==
    IF nr = 2 THEN [cdh_outmsg2 EXCEPT ![cdh] = cb] ELSE cdh_outmsg2

\* what cbuf_free is called on: the message the slot held, NoMsg for none
outmsg_set_freed(cdh, nr) ==
    IF nr = 1 \/ nr = 2 THEN device_handle_outmsg_get(cdh, nr) ELSE NoMsg

\* device_handle_outmsg_set(dh, nr, cb): -1 unless nr is 1 or 2.  cb is
\* consumed: it is a buffer of its own, held by no slot.
OutmsgSet ==
    \E cdh \in alloc, nr \in 0..3, cb \in Msgs \cup {NoMsg} :
        /\ cdh_outmsg1' = outmsg1_set(cdh, nr, cb)
        /\ cdh_outmsg2' = outmsg2_set(cdh, nr, cb)
        /\ call' = [op |-> "outmsg_set", dh |-> cdh, nr |-> nr, cb |-> cb,
                    before1 |-> cdh_outmsg1, before2 |-> cdh_outmsg2,
                    freed |-> outmsg_set_freed(cdh, nr),
                    ret |-> IF nr # 1 /\ nr # 2 THEN -1 ELSE 0]
        /\ UNCHANGED <<queueVars, connVars, msgVars, libVars, cdh_tid, cdh_socket,
                       cdh_sockerr, cdh_type, cdh_pid, cdh_xcaps, now, cliSide>>

\* clixon_client_type, the first of the enum being what memset leaves
ClientTypes == {"CLIXON_CLIENT_IPC", "CLIXON_CLIENT_NETCONF", "CLIXON_CLIENT_SSH"}
\* what a connect that succeeds stores: the socket, the pid of the
\* sub-process, the socket of its stderr
ConnSocket == 5
ConnSockerr == 6
ConnPid == 77

\* device_handle_connect(dh, socktype, dest, stricthostkey): store the type,
\* then connect by it.  Where the connect fails, clixon_client_disconnect is
\* called on the device handle, a struct of another type than the one it
\* works on: what it closes and resets there is not determined, and the
\* socket fields are left as they were or as a closed handle has them.
device_handle_connect(cdh, socktype, ok, reset) ==
    /\ cdh_type' = [cdh_type EXCEPT ![cdh] = socktype]
    /\ IF ok
       THEN /\ cdh_socket' = [cdh_socket EXCEPT ![cdh] = ConnSocket]
            /\ cdh_pid' = IF socktype = "CLIXON_CLIENT_IPC" THEN cdh_pid
                          ELSE [cdh_pid EXCEPT ![cdh] = ConnPid]
            /\ cdh_sockerr' = IF socktype = "CLIXON_CLIENT_SSH"
                              THEN [cdh_sockerr EXCEPT ![cdh] = ConnSockerr]
                              ELSE cdh_sockerr
       ELSE IF reset
       THEN /\ cdh_socket' = [cdh_socket EXCEPT ![cdh] = -1]
            /\ cdh_pid' = [cdh_pid EXCEPT ![cdh] = 0]
            /\ cdh_sockerr' = [cdh_sockerr EXCEPT ![cdh] = -1]
       ELSE UNCHANGED <<cdh_socket, cdh_pid, cdh_sockerr>>
    /\ call' = [op |-> "connect", dh |-> cdh, name |-> cdh_name[cdh], type |-> socktype,
                ret |-> IF ok THEN 0 ELSE -1]
    /\ UNCHANGED <<queueVars, connVars, msgVars, libVars, cdh_tid, cdh_outmsg1,
                   cdh_outmsg2, cdh_xcaps, now, cliSide>>

Connect ==
    \E cdh \in alloc, socktype \in ClientTypes, ok \in BOOLEAN, reset \in BOOLEAN :
        /\ ~Aborted
        /\ ok => ~reset
        /\ device_handle_connect(cdh, socktype, ok, reset)

\* device_handle_disconnect(dh): close the sockets of the handle by its type.
\* The handle stays in the queue.  For a sub-process,
\* assert(cdh->cdh_pid && cdh->cdh_socket != -1) comes first: where it fails
\* a build with assertions aborts, a build with NDEBUG goes on.
\* closed: clixon_proc_socket_close returns 0.
disconnect_asserts(cdh) ==
    cdh_type[cdh] = "CLIXON_CLIENT_IPC" \/ (cdh_pid[cdh] # 0 /\ cdh_socket[cdh] # -1)

device_handle_disconnect(cdh, closed) ==
    /\ IF cdh_type[cdh] = "CLIXON_CLIENT_IPC"
       THEN /\ cdh_socket' = [cdh_socket EXCEPT ![cdh] = -1]
            /\ UNCHANGED <<cdh_sockerr, cdh_pid>>
       ELSE /\ cdh_sockerr' = [cdh_sockerr EXCEPT ![cdh] = -1]
            /\ IF closed
               THEN /\ cdh_pid' = [cdh_pid EXCEPT ![cdh] = 0]
                    /\ cdh_socket' = [cdh_socket EXCEPT ![cdh] = -1]
               ELSE UNCHANGED <<cdh_pid, cdh_socket>>
    /\ call' = [op |-> "disconnect", dh |-> cdh, name |-> cdh_name[cdh],
                type |-> cdh_type[cdh], socket |-> cdh_socket[cdh],
                ret |-> IF cdh_type[cdh] = "CLIXON_CLIENT_IPC" \/ closed THEN 0 ELSE -1]
    /\ UNCHANGED <<queueVars, connVars, msgVars, libVars, cdh_tid, cdh_type, cdh_outmsg1,
                   cdh_outmsg2, cdh_xcaps, now, cliSide>>

Disconnect ==
    \E cdh \in alloc, closed \in BOOLEAN, ndebug \in BOOLEAN :
        /\ ~Aborted
        /\ cdh_type[cdh] = "CLIXON_CLIENT_IPC" => closed
        /\ disconnect_asserts(cdh) => ndebug
        /\ IF disconnect_asserts(cdh) \/ ndebug
           THEN device_handle_disconnect(cdh, closed)
           ELSE /\ call' = [op |-> "abort", dh |-> cdh, name |-> cdh_name[cdh]]
                /\ UNCHANGED <<handleVars, cliSide>>

\* time passes between calls
Tick ==
    /\ now < MaxTime
    /\ now' = now + 1
    /\ UNCHANGED <<queueVars, connVars, msgVars, libVars, ioVars, call, cliSide>>

\* gettimeofday reads the wall clock of the system, which, unlike a monotonic
\* clock, is also set back (settimeofday, a step made by the time daemon)
ClockStepBack ==
    /\ now > 0
    /\ now' \in 0..(now - 1)
    /\ UNCHANGED <<queueVars, connVars, msgVars, libVars, ioVars, call, cliSide>>

\* device_handle_conn_time_set(dh, t) with t != NULL: cdh->cdh_conn_time = *t
device_handle_conn_time_set(cdh, t) ==
    /\ cdh \in alloc
    /\ cdh_conn_time' = [cdh_conn_time EXCEPT ![cdh] = t]
    /\ call' = [op |-> "conn_time_set", dh |-> cdh, t |-> t]
    /\ UNCHANGED <<queueVars, cdh_conn_state, cdh_logmsg, msgVars, libVars, ioVars,
                   now, cliSide>>

ConnTimeSet ==
    \E cdh \in alloc, t \in 0..MaxTime : device_handle_conn_time_set(cdh, t)

(* --------------------- the mount-point provider ------------------------ *)

\* XPaths of mount-point nodes, as what xml2xpath returns, segment by segment
XPaths == {<<"devices", "device", "config">>,
           <<"rpc-reply", "data">>,
           <<"rpc-reply", "data", "devices", "device", "config">>}

\* every xpath taken for one of a device
strstr_any(xpath) == xpath

\* strstr(xpath, "/devices/device"): the xpath from the first occurrence on,
\* <<>> for NULL
RECURSIVE strstr_devices(_)
strstr_devices(xpath) ==
    IF Len(xpath) < 2 THEN <<>>
    ELSE IF xpath[1] = "devices" /\ xpath[2] = "device" THEN xpath
    ELSE strstr_devices(Tail(xpath))

MountInit ==
    /\ recursion = 0
    /\ mstack = <<>>
    /\ nfetch = 0

\* the counter around clicon_rpc_get2: recursion++ before the call,
\* recursion-- where it fails and recursion-- where it succeeds
\* recursion++ left out
recursion_inc_missing(r) == r

recursion_inc(r) == r + 1

\* recursion-- left out on the error path
recursion_dec_failed_missing(r) == r

recursion_dec_failed(r) == r - 1

recursion_dec(r) == r - 1

\* what one call of the provider leaves behind when it returns
MountReturn(xpath, entry, depth, path, ret, yanglib, fetched, nested, r) ==
    call' = [op |-> "yang_mount", xpath |-> xpath, entry |-> entry, depth |-> depth, path |-> path,
             ret |-> ret, yanglib |-> yanglib, fetched |-> fetched,
             nested |-> nested, exit |-> r]

\* controller_cli_yang_mount from its entry to its return or to the call of
\* clicon_rpc_get2.  `fail` names the library call that fails, if any.
\* The call is made by the CLI (no call in progress) or from within the
\* clicon_rpc_get2 of the innermost call in progress.
MountEnter ==
    \E xpath \in XPaths, fail \in {"none", "cbuf_new", "xml_nsctx_node", "xml2xpath"} :
        LET depth == Len(mstack)
            str == strstr_devices(xpath)
            seen == IF depth = 0 THEN mstack
                    ELSE [mstack EXCEPT ![depth].nested = @ + 1]
        IN /\ depth > 0 => mstack[depth].nested < MaxNested
           /\ IF recursion # 0
              THEN /\ MountReturn(xpath, recursion, depth, "recursion", 0, "none", FALSE, 0, recursion)
                   /\ mstack' = seen
                   /\ UNCHANGED <<recursion, nfetch>>
              ELSE IF fail # "none"
              THEN /\ MountReturn(xpath, recursion, depth, fail, -1, "none", FALSE, 0, recursion)
                   /\ mstack' = seen
                   /\ UNCHANGED <<recursion, nfetch>>
              ELSE IF str = <<>>
              THEN /\ MountReturn(xpath, recursion, depth, "not-device", 0, "none", FALSE, 0, recursion)
                   /\ mstack' = seen
                   /\ UNCHANGED <<recursion, nfetch>>
              ELSE /\ nfetch < MaxFetch
                   /\ recursion' = recursion_inc(recursion)
                   /\ nfetch' = nfetch + 1
                   /\ mstack' = Append(seen, [entry |-> recursion, xpath |-> xpath, nested |-> 0])
                   /\ call' = [op |-> "rpc_get2", xpath |-> str, depth |-> depth]
           /\ UNCHANGED <<handleVars, cliVars>>

\* an rpc-error in the reply taken for a reply without module-set
mount_retval_no_xerr(reply, fail) ==
    IF reply = "failed" THEN -1
    ELSE IF fail = "xml_nsctx_add" THEN -1
    ELSE IF reply \in {"no-module-set", "rpc-error"} THEN 0
    ELSE IF fail \in {"clixon_xml_parse_string", "xml_addsub"} THEN -1
    ELSE 0

\* retval of controller_cli_yang_mount once clicon_rpc_get2 has returned:
\* -1 where a goto done is taken, 0 at ok
mount_retval(reply, fail) ==
    IF reply = "failed" THEN -1                 \* clicon_rpc_get2 < 0
    ELSE IF reply = "rpc-error" THEN -1         \* xpath_first(xt, "/rpc-error")
    ELSE IF fail = "xml_nsctx_add" THEN -1
    ELSE IF reply = "no-module-set" THEN 0
    ELSE IF fail \in {"clixon_xml_parse_string", "xml_addsub"} THEN -1
    ELSE 0

\* clicon_rpc_get2 of the innermost call returns, and the call runs to its
\* return.  `reply` is what came back, `fail` the library call that fails.
MountFetchReturn ==
    \E reply \in {"failed", "rpc-error", "no-module-set", "module-set"},
       fail \in {"none", "xml_nsctx_add", "clixon_xml_parse_string", "xml_addsub"} :
        LET depth == Len(mstack)
            f == mstack[depth]
            r == IF reply = "failed" THEN recursion_dec_failed(recursion)
                 ELSE recursion_dec(recursion)
        IN /\ depth > 0
           /\ reply \in {"failed", "rpc-error"} => fail = "none"
           /\ reply = "no-module-set" => fail \in {"none", "xml_nsctx_add"}
           /\ recursion' = r
           /\ mstack' = SubSeq(mstack, 1, depth - 1)
           /\ IF reply \in {"failed", "rpc-error"}
              THEN MountReturn(f.xpath, f.entry, depth - 1, reply, mount_retval(reply, fail), "none", TRUE, f.nested, r)
              ELSE IF fail = "xml_nsctx_add"
              THEN MountReturn(f.xpath, f.entry, depth - 1, fail, mount_retval(reply, fail), "none", TRUE, f.nested, r)
              ELSE IF reply = "no-module-set"
              THEN MountReturn(f.xpath, f.entry, depth - 1, reply, mount_retval(reply, fail), "none", TRUE, f.nested, r)
              ELSE IF fail = "clixon_xml_parse_string"
              THEN MountReturn(f.xpath, f.entry, depth - 1, fail, mount_retval(reply, fail), "none", TRUE, f.nested, r)
              ELSE IF fail = "xml_addsub"
              THEN MountReturn(f.xpath, f.entry, depth - 1, fail, mount_retval(reply, fail), "empty", TRUE, f.nested, r)
              ELSE MountReturn(f.xpath, f.entry, depth - 1, reply, mount_retval(reply, fail), "mount", TRUE, f.nested, r)
           /\ UNCHANGED <<handleVars, nfetch, cliVars>>

(* ----------------- the CLI plugin: grammars of devices ----------------- *)

\* The devices of the backend's configuration, in the order of its device
\* list, and the yang-libraries a device may have there.
Devices == <<"d1", "d2">>
ModOrder == <<"A", "B">>
CliLibs == {ModSet(<<Module("A", 1)>>), ModSet(<<Module("A", 2)>>),
            ModSet(<<Module("A", 1), Module("B", 1)>>)}
BackendStates ==
    {[listed |-> FALSE, lib |-> NullLib], [listed |-> TRUE, lib |-> NullLib]}
        \cup {[listed |-> TRUE, lib |-> l] : l \in CliLibs}
SpecIds == 1..(Len(Devices) + MaxFail)

\* Names of cligen trees: "mountpoint-<devname>", kept as its two parts
NoTree == <<>>
TreeName(devname) == <<"mountpoint-", devname>>

\* A parse_tree: null for a NULL pointer, vec for its top-level cg_obj's
NullPt == [null |-> TRUE, vec |-> <<>>]
EmptyPt == [null |-> FALSE, vec |-> <<>>]
pt_len_get(pt) == IF pt.null THEN -1 ELSE Len(pt.vec)
pt_vec_i_get(pt, i) == IF pt.null \/ i < 0 \/ i >= Len(pt.vec) THEN NoStr ELSE pt.vec[i + 1]

\* co_eq of two top-level commands: 0 when equal, else by their order
Position(n) == CHOOSE k \in 1..Len(ModOrder) : ModOrder[k] = n
co_eq(co1, co2) ==
    IF co1 = co2 THEN 0 ELSE IF Position(co1) < Position(co2) THEN -1 ELSE 1

\* the for loop of pt_eq1 from index i on
RECURSIVE pt_eq1_for(_, _, _)
pt_eq1_for(pt1, pt2, i) ==
    LET co1 == pt_vec_i_get(pt1, i)
        co2 == pt_vec_i_get(pt2, i)
    IN IF i >= pt_len_get(pt1) THEN 0
       ELSE IF co1 = NoStr /\ co2 = NoStr THEN pt_eq1_for(pt1, pt2, i + 1)
       ELSE IF co1 = NoStr THEN -1
       ELSE IF co2 = NoStr THEN 1
       ELSE IF co_eq(co1, co2) # 0 THEN co_eq(co1, co2)
       ELSE pt_eq1_for(pt1, pt2, i + 1)

\* pt_eq1: eq = ptlen - pt_len_get(pt1) is 0 whatever pt2 is
pt_eq1(pt1, pt2) ==
    LET ptlen == pt_len_get(pt1)
        eq == ptlen - pt_len_get(pt1)
    IN IF eq = 0 THEN pt_eq1_for(pt1, pt2, 0) ELSE eq

\* pt_eq1 applied to two parse trees of commands, NULL objects among them
ParseTrees ==
    {[null |-> FALSE, vec |-> v] :
        v \in UNION {[1..k -> {"A", "B", NoStr}] : k \in 0..MaxPtLen}}

PtEq1 ==
    \E pt1 \in ParseTrees, pt2 \in ParseTrees :
        /\ call' = [op |-> "pt_eq1", pt1 |-> pt1, pt2 |-> pt2, ret |-> pt_eq1(pt1, pt2)]
        /\ UNCHANGED <<handleVars, cliSide>>

\* cligen_ph_find: the index of the first pt_head of that name, 0 for NULL
cligen_ph_find(ph, name) ==
    IF \E k \in 1..Len(ph) : ph[k].name = name
    THEN CHOOSE k \in 1..Len(ph) :
            ph[k].name = name /\ \A j \in 1..(k - 1) : ph[j].name # name
    ELSE 0

cligen_ph_parsetree_get(ph, k) == IF k = 0 THEN NullPt ELSE ph[k].pt

\* fnmatch(pattern, devname, 0) = 0, on the characters of the two strings
Chars(str) ==
    CASE str = "d1" -> <<"d", "1">>
      [] str = "d2" -> <<"d", "2">>
      [] str = "d*" -> <<"d", "*">>
      [] OTHER -> <<str>>
RECURSIVE Glob(_, _)
Glob(p, n) ==
    IF p = <<>> THEN n = <<>>
    ELSE IF Head(p) = "*" THEN Glob(Tail(p), n) \/ (n # <<>> /\ Glob(p, Tail(n)))
    ELSE n # <<>> /\ Head(p) = Head(n) /\ Glob(Tail(p), Tail(n))
fnmatch(pattern, devname) == Glob(Chars(pattern), Chars(devname))

\* Library calls that may fail, one per call of the plugin; "none": none does
FailPoints == {"none", "rpc_get_yanglib_mount_match", "cbuf_new", "strdup",
               "rpc_get_yanglib_mount_match_full", "controller_mount_yspec_get",
               "yspec_new", "yang_lib2yspec", "controller_mount_yspec_set",
               "yang2cli_yspec", "cligen_ph_add", "pt_new"}
StartFailPoints == {"clicon_rpc_create_subscription", "clicon_data_int_set"}

\* The locals of one call and the state it works on.  armed: the library call
\* that is to fail; err: goto done with retval -1 has been taken.
Locals(fail) ==
    [ph |-> ph_list, mounts |-> mounts, ref |-> ys_ref, mods |-> ys_mods,
     nspec |-> nspec, armed |-> fail, err |-> FALSE, skip |-> FALSE,
     xdevs1 |-> FALSE, yspec1 |-> NULL, firsttree |-> NoTree, nomatch |-> 0,
     namep |-> NoTree]
Failed(st) == [st EXCEPT !.err = TRUE, !.armed = "none"]

\* the modules of a yang-library, as yang_lib2yspec parses them into a spec
ModsOf(lib) == {lib.kids[i].name : i \in 1..Len(lib.kids)}

\* yang2cli_yspec: one top-level command per module of the spec, sorted
yang2cli(mods) == [null |-> FALSE, vec |-> SelectSeq(ModOrder, LAMBDA n : n \in mods)]

yang_ref_inc(ref, yspec) == [ref EXCEPT ![yspec] = @ + 1]

\* device_shared_yspec_xml: the while loop over the devices of the full
\* reply from the i-th on, then yspec_new when no device shares
RECURSIVE device_shared_yspec_xml(_, _, _, _)
device_shared_yspec_xml(st, devname0, xyanglib0, i) ==
    IF i > Len(Devices)
    THEN IF st.armed = "yspec_new" THEN Failed(st)
         ELSE [st EXCEPT !.nspec = @ + 1, !.yspec1 = st.nspec + 1]
    ELSE LET devname == Devices[i]
             xyanglib == backend[devname].lib
         IN IF \/ ~backend[devname].listed
               \/ devname = devname0
               \/ xyanglib.null
               \/ ~xml_tree_equal(xyanglib0, xyanglib)
               \/ st.mounts[devname] = NULL
            THEN device_shared_yspec_xml(st, devname0, xyanglib0, i + 1)
            ELSE [st EXCEPT !.ref = yang_ref_inc(@, st.mounts[devname]),
                            !.yspec1 = st.mounts[devname]]

\* yang_lib2yspec(h, xyanglib, yspec1)
ParseYangLib(st, xyanglib) ==
    IF st.err THEN st
    ELSE IF st.armed = "yang_lib2yspec" THEN Failed(st)
    ELSE [st EXCEPT !.mods[st.yspec1] = @ \cup ModsOf(xyanglib)]

\* controller_mount_yspec_set(h, devname, yspec1)
MountYspecSet(st, devname) ==
    IF st.err THEN st
    ELSE IF st.armed = "controller_mount_yspec_set" THEN Failed(st)
    ELSE [st EXCEPT !.mounts[devname] = st.yspec1]

\* create_autocli_mount_tree
create_autocli_mount_tree(st, devname, xyanglib) ==
    IF st.armed = "controller_mount_yspec_get" THEN Failed(st)
    ELSE IF st.mounts[devname] # NULL THEN [st EXCEPT !.yspec1 = st.mounts[devname]]
    ELSE MountYspecSet(ParseYangLib(device_shared_yspec_xml(st, devname, xyanglib, 1),
                                    xyanglib),
                       devname)

\* The body of `if (cligen_ph_find(ch, newtree) == NULL)`, the same in the
\* resolver and in controller_cligen_gentree_all, in its three steps.
\* Query the full modules once:
QueryFull(st) ==
    IF st.xdevs1 THEN st
    ELSE IF st.armed = "rpc_get_yanglib_mount_match_full" THEN Failed(st)
    ELSE [st EXCEPT !.xdevs1 = TRUE]

\* skip (continue) a device without yang-library, else mount a yang spec:
MountTree(st, devname) ==
    IF st.err THEN st
    ELSE IF backend[devname].lib.null THEN [st EXCEPT !.skip = TRUE]
    ELSE create_autocli_mount_tree(st, devname, backend[devname].lib)

\* generate the tree from the spec with yang2cli_yspec:
GenerateCli(st, devname) ==
    IF st.err \/ st.skip THEN st
    ELSE IF st.yspec1 = NULL THEN Failed(st)
    ELSE IF st.armed = "yang2cli_yspec" THEN Failed(st)
    ELSE [st EXCEPT !.ph = Append(@, [name |-> TreeName(devname),
                                      pt |-> yang2cli(st.mods[st.yspec1])])]

GenerateTree(st, devname) ==
    GenerateCli(MountTree(QueryFull(st), devname), devname)

\* the end of a passage of a while loop over the devices
Continue(st) == [st EXCEPT !.skip = FALSE]

\* the while loop of controller_cligen_gentree_all from the i-th device on
RECURSIVE GentreeLoop(_, _, _)
GentreeLoop(st, pattern, i) ==
    IF i > Len(Devices) \/ st.err THEN st
    ELSE IF \/ ~backend[Devices[i]].listed
            \/ ~fnmatch(pattern, Devices[i])
            \/ cligen_ph_find(st.ph, TreeName(Devices[i])) # 0
    THEN GentreeLoop(st, pattern, i + 1)
    ELSE GentreeLoop(Continue(GenerateTree(st, Devices[i])), pattern, i + 1)

\* controller_cligen_gentree_all
controller_cligen_gentree_all(st) ==
    IF st.armed \in {"rpc_get_yanglib_mount_match", "cbuf_new"} THEN Failed(st)
    ELSE GentreeLoop(st, "*", 1)

\* firsttree takes the name of the last matching device
firsttree_set_last(firsttree, newtree) == newtree

\* if (firsttree == NULL && (firsttree = strdup(newtree)) ...
firsttree_set(firsttree, newtree) ==
    IF firsttree = NoTree THEN newtree ELSE firsttree

\* One passage of the resolver's while loop, for a matching device, in its
\* three steps.  The first tree's name:
TreerefFirst(st, newtree) ==
    IF st.firsttree = NoTree /\ st.armed = "strdup" THEN Failed(st)
    ELSE [st EXCEPT !.firsttree = firsttree_set(@, newtree)]

\* the device's tree generated whether it is there or not
TreerefTree_always(st, devname) ==
    IF st.err THEN st ELSE GenerateTree(st, devname)

\* the device's tree, generated if it is not there:
TreerefTree(st, devname) ==
    IF st.err THEN st
    ELSE IF cligen_ph_find(st.ph, TreeName(devname)) # 0 THEN st
    ELSE GenerateTree(st, devname)

\* `if (strcmp(firsttree, newtree) != 0)`: check if multiple trees are equal
TreerefCompare(st, newtree) ==
    IF st.err THEN st
    ELSE IF st.skip THEN Continue(st)
    ELSE IF /\ st.firsttree # newtree
            /\ pt_eq1(cligen_ph_parsetree_get(st.ph, cligen_ph_find(st.ph, st.firsttree)),
                      cligen_ph_parsetree_get(st.ph, cligen_ph_find(st.ph, newtree))) # 0
    THEN [st EXCEPT !.nomatch = @ + 1]
    ELSE st

TreerefDevice(st, pattern, devname) ==
    IF ~fnmatch(pattern, devname) THEN st
    ELSE TreerefCompare(TreerefTree(TreerefFirst(st, TreeName(devname)), devname),
                        TreeName(devname))

RECURSIVE TreerefLoop(_, _, _)
TreerefLoop(st, pattern, i) ==
    IF i > Len(Devices) \/ st.err THEN st
    ELSE IF ~backend[Devices[i]].listed THEN TreerefLoop(st, pattern, i + 1)
    ELSE TreerefLoop(TreerefDevice(st, pattern, Devices[i]), pattern, i + 1)

\* the shallow query and the buffer before the loop, then the loop
TreerefQuery(st, pattern) ==
    IF st.armed \in {"rpc_get_yanglib_mount_match", "cbuf_new"} THEN Failed(st)
    ELSE TreerefLoop(st, pattern, 1)

\* `if (namep)`: the first tree's name, or else the dummy tree
TreerefName(st) ==
    IF st.err THEN st
    ELSE IF st.firsttree # NoTree /\ st.nomatch = 0
    THEN [st EXCEPT !.namep = st.firsttree]
    ELSE IF cligen_ph_find(st.ph, <<"mointpoint">>) # 0 THEN st
    ELSE IF st.armed = "cligen_ph_add" THEN Failed(st)
    ELSE IF st.armed = "pt_new"
         THEN Failed([st EXCEPT !.ph = Append(@, [name |-> <<"mountpoint">>, pt |-> NullPt])])
    ELSE [st EXCEPT !.ph = Append(@, [name |-> <<"mountpoint">>, pt |-> EmptyPt])]

\* The calls of the resolver: the tree name, the edit-mode variables
\* (clicon_data "cli-edit-cvv", <<>>: NULL) and the token vector
NoCvv == <<>>
TreerefCalls ==
    {[name |-> "datamodel", cvv_edit |-> NoCvv, cvt |-> <<"device", "d1">>],
     [name |-> "mountpoint", cvv_edit |-> NoCvv, cvt |-> <<"show">>],
     [name |-> "mountpoint", cvv_edit |-> NoCvv, cvt |-> <<"show", "device">>],
     [name |-> "mountpoint", cvv_edit |-> NoCvv, cvt |-> <<"device", "d1">>],
     [name |-> "mountpoint", cvv_edit |-> NoCvv, cvt |-> <<"device", "d*">>],
     [name |-> "mountpoint", cvv_edit |-> NoCvv, cvt |-> <<"device", "x">>],
     [name |-> "mountpoint", cvv_edit |-> <<[name |-> "name", val |-> "d2"]>>,
      cvt |-> <<"device", "d1">>],
     [name |-> "mountpoint", cvv_edit |-> <<[name |-> "service", val |-> "d1"]>>,
      cvt |-> <<"show", "device", "*", "config">>]}

cvec_find(cvv, name) ==
    IF \E k \in 1..Len(cvv) : cvv[k].name = name
    THEN cvv[CHOOSE k \in 1..Len(cvv) :
                cvv[k].name = name /\ \A j \in 1..(k - 1) : cvv[j].name # name].val
    ELSE NoStr

\* the "device" token's successor in cvt, NoStr when there is none
RECURSIVE DeviceToken(_)
DeviceToken(cvt) ==
    IF cvt = <<>> THEN NoStr
    ELSE IF Head(cvt) = "device"
         THEN IF Len(cvt) >= 2 THEN cvt[2] ELSE NoStr
    ELSE DeviceToken(Tail(cvt))

\* the "device" token looked at before the edit-mode variables
TreerefPattern_tokens(name, cvv_edit, cvt) ==
    IF name # "mountpoint" THEN NoStr
    ELSE IF DeviceToken(cvt) # NoStr THEN DeviceToken(cvt)
    ELSE cvec_find(cvv_edit, "name")

\* the device pattern of a call; NoStr: goto ok
TreerefPattern(name, cvv_edit, cvt) ==
    IF name # "mountpoint" THEN NoStr
    ELSE IF cvec_find(cvv_edit, "name") # NoStr THEN cvec_find(cvv_edit, "name")
    ELSE DeviceToken(cvt)

\* `retval = 1` after `if (namep)`, on both of its branches
treeref_retval(st) == 1

\* what the resolver returns: the state it leaves with *namep, and retval
TreerefDone(st, pattern) ==
    [st |-> st, pattern |-> pattern,
     retval |-> IF st.err THEN -1 ELSE treeref_retval(st)]

TreerefRun(st, pattern) ==
    IF pattern = NoStr THEN [st |-> st, pattern |-> pattern, retval |-> 0]
    ELSE TreerefDone(TreerefName(TreerefQuery(st, pattern)), pattern)

\* controller_cligen_treeref_wrap
controller_cligen_treeref_wrap(name, cvv_edit, cvt, fail) ==
    TreerefRun(Locals(fail), TreerefPattern(name, cvv_edit, cvt))

\* number of trees named "mountpoint"
Dummies(ph) == Cardinality({k \in 1..Len(ph) : ph[k].name = <<"mountpoint">>})

\* what a call leaves in the plugin's state
CliStore(st) ==
    /\ ph_list' = st.ph
    /\ mounts' = st.mounts
    /\ ys_ref' = st.ref
    /\ ys_mods' = st.mods
    /\ nspec' = st.nspec
    /\ nfail' = nfail + (IF st.err THEN 1 ELSE 0)

\* the resolver has returned r
TreerefReturn(in, fail, r) ==
    /\ fail # "none" => (nfail < MaxFail /\ r.st.err)
    /\ Dummies(r.st.ph) <= MaxDummy
    /\ CliStore(r.st)
    /\ call' = [op |-> "treeref_wrap", name |-> in.name, cvv_edit |-> in.cvv_edit,
                cvt |-> in.cvt, pattern |-> r.pattern, retval |-> r.retval,
                namep |-> r.st.namep, nomatch |-> r.st.nomatch,
                had |-> {d \in DOMAIN backend : cligen_ph_find(ph_list, TreeName(d)) # 0}]

\* The requests of the plugin go out on the client socket of the handle,
\* which the first of them connects
ClientFd == 3
rpc_socket(cs) == IF cs > 0 THEN cs ELSE ClientFd

\* used: the call has made a request to the backend
RpcConnect(used) ==
    /\ client_socket' = IF used THEN rpc_socket(client_socket) ELSE client_socket
    /\ fds' = IF used THEN fds \cup {rpc_socket(client_socket)} ELSE fds

\* cligen calls the resolver for a tree reference
TreerefWrap ==
    \E in \in TreerefCalls, fail \in FailPoints :
        /\ started = "yes"
        /\ TreerefReturn(in, fail,
                         controller_cligen_treeref_wrap(in.name, in.cvv_edit, in.cvt, fail))
        /\ RpcConnect(TreerefPattern(in.name, in.cvv_edit, in.cvt) # NoStr
                          /\ fail # "rpc_get_yanglib_mount_match")
        /\ UNCHANGED <<handleVars, mountVars, backend, started,
                       gentree_expand_all, notify_socket>>

\* -g not looked at
StartExpand_never(st) == st

\* controller_cli_start from `if (gentree_expand_all == 1)` on
StartExpand(st) ==
    IF gentree_expand_all = 1 THEN controller_cligen_gentree_all(st) ELSE st

\* controller_cli_start has returned, st is what it leaves
StartReturn(fail, s, st) ==
    /\ fail # "none" => st.err
    /\ CliStore(st)
    /\ started' = IF st.err THEN "failed" ELSE "yes"
    /\ notify_socket' = IF fail \in StartFailPoints THEN notify_socket ELSE s
    /\ call' = [op |-> "start", retval |-> IF st.err THEN -1 ELSE 0]

\* controller_cli_start
Sockets == {4}
\* controller_cligen_gentree_all is called and its first query is answered
StartQueries(fail) ==
    /\ gentree_expand_all = 1
    /\ fail \notin StartFailPoints \cup {"rpc_get_yanglib_mount_match"}
CliStart ==
    \E s \in Sockets, fail \in FailPoints \cup StartFailPoints :
        /\ started = "no"
        /\ StartReturn(fail, s, IF fail \in StartFailPoints THEN Failed(Locals(fail))
                                ELSE StartExpand(Locals(fail)))
        /\ client_socket' = IF StartQueries(fail) THEN rpc_socket(client_socket)
                            ELSE client_socket
        /\ fds' = (fds \cup (IF fail = "clicon_rpc_create_subscription" THEN {} ELSE {s}))
                      \cup (IF StartQueries(fail) THEN {rpc_socket(client_socket)} ELSE {})
        /\ UNCHANGED <<handleVars, mountVars, backend, gentree_expand_all>>

\* The configuration of a device changes in the backend between two calls of
\* the plugin: a module is added to its yang-library, which the next
\* rpc_get_yanglib_mount_match returns.
BackendChange ==
    \E d \in DOMAIN backend, lib \in CliLibs :
        /\ started = "yes"
        /\ backend[d].listed
        /\ ~backend[d].lib.null
        /\ ModsOf(backend[d].lib) \subseteq ModsOf(lib)
        /\ ModsOf(backend[d].lib) # ModsOf(lib)
        /\ \A i \in 1..Len(backend[d].lib.kids) : backend[d].lib.kids[i] = lib.kids[i]
        /\ backend' = [backend EXCEPT ![d].lib = lib]
        /\ call' = [op |-> "backend_change", dev |-> d, from |-> backend[d].lib, to |-> lib]
        /\ UNCHANGED <<handleVars, mountVars, started, ph_list, mounts, ys_ref, ys_mods,
                       nspec, nfail, gentree_expand_all, notify_socket, client_socket,
                       fds>>

\* controller_cli_exit.  With a notification socket stored it sends
\* <close-session/> with clicon_rpc_msg(h, msg, NULL), deletes the entry and
\* closes the socket; then it closes the client socket.  sent: the socket the
\* request went out on, 0 when none was sent.
ExitFailPoints == {"cbuf_new", "clicon_msg_encode", "clicon_rpc_msg"}

ExitReturn(sent, retval) ==
    /\ started' = "exited"
    /\ call' = [op |-> "exit", s |-> notify_socket, sent |-> sent, retval |-> retval,
                client |-> client_socket]

CliExit ==
    \E fail \in ExitFailPoints \cup {"none"} :
        /\ started \in {"yes", "failed"}
        /\ IF notify_socket > 0 /\ fail # "none"
           THEN /\ ExitReturn(0, -1)               \* goto done
                /\ UNCHANGED <<notify_socket, client_socket, fds>>
           ELSE IF notify_socket > 0
           THEN /\ ExitReturn(rpc_socket(client_socket), 0)
                /\ notify_socket' = 0              \* clicon_data_int_del
                /\ client_socket' = -1
                /\ fds' = (fds \ {notify_socket}) \ {rpc_socket(client_socket)}
           ELSE /\ fail = "none"
                /\ ExitReturn(0, 0)
                /\ client_socket' = -1
                /\ fds' = IF client_socket > 0 THEN fds \ {client_socket} ELSE fds
                /\ UNCHANGED notify_socket
        /\ UNCHANGED <<handleVars, mountVars, backend, ph_list, mounts, ys_ref, ys_mods,
                       nspec, nfail, gentree_expand_all>>

\* The plugin after clixon_plugin_init: no tree, no mounted yang spec; the
\* backend's devices and the -g flag are what they happen to be.
CliInit ==
    /\ backend \in [{Devices[i] : i \in 1..Len(Devices)} -> BackendStates]
    /\ gentree_expand_all \in {0, 1}
    /\ started = "no"
    /\ notify_socket = 0
    /\ client_socket = -1
    /\ fds = {}
    /\ ph_list = <<>>
    /\ mounts = [d \in {Devices[i] : i \in 1..Len(Devices)} |-> NULL]
    /\ ys_ref = [y \in SpecIds |-> 0]
    /\ ys_mods = [y \in SpecIds |-> {}]
    /\ nspec = 0
    /\ nfail = 0

\* the plugin where no device is configured
CliIdle ==
    /\ CliInit
    /\ \A d \in DOMAIN backend : ~backend[d].listed
    /\ gentree_expand_all = 0

(* --------------------------- specifications ---------------------------- *)
vars == <<handleVars, call, cliSide>>

Init == HandleInit /\ MountInit /\ CliIdle

Next == Create \/ Remove \/ Clear

Spec == Init /\ [][Next]_vars

NextMsgId == CreateUnique \/ Remove \/ MsgIdGetInc

SpecMsgId == Init /\ [][NextMsgId]_vars

NextConn == CreateFew \/ ConnStateSetCall \/ LogmsgSet

SpecConn == Init /\ [][NextConn]_vars

NextLib == CreateD1 \/ YangLibSet \/ YangLibAppend

SpecLib == Init /\ [][NextLib]_vars

NextLibSet ==
    CreateD1Running \/ YangLibSetRunning \/ YangLibSetNoModuleSet \/ YangLibAppendRunning

SpecLibSet == Init /\ [][NextLibSet]_vars

NextCaps == CreateD1 \/ CapabilitiesSet \/ CapabilitiesFind

SpecCaps == Init /\ [][NextCaps]_vars

NextTime == CreateD1 \/ ConnStateSetCall \/ ConnTimeSet \/ Tick \/ ClockStepBack

SpecTime == Init /\ [][NextTime]_vars

NextOut == CreateFew \/ OutmsgSet \/ OutmsgGet

SpecOut == Init /\ [][NextOut]_vars

NextMount == MountEnter \/ MountFetchReturn

SpecMount == Init /\ [][NextMount]_vars

InitCli == HandleInit /\ MountInit /\ CliInit

NextCli == CliStart \/ TreerefWrap

SpecCli == InitCli /\ [][NextCli]_vars

NextPtEq == PtEq1

SpecPtEq == Init /\ [][NextPtEq]_vars

NextSession == CreateD1Running \/ Connect \/ Disconnect

SpecSession == Init /\ [][NextSession]_vars

NextExit == CliStart \/ TreerefWrap \/ CliExit

SpecExit == InitCli /\ [][NextExit]_vars

NextCliChange == CliStart \/ TreerefWrap \/ BackendChange

SpecCliChange == InitCli /\ [][NextCliChange]_vars

(* ------------------------------ claims --------------------------------- *)

NamesUnique == \A a, b \in alloc : a # b => cdh_name[a] # cdh_name[b]

\* C1: while the live handles have pairwise different names, every handle
\* that iteration with device_handle_each reaches is the handle that
\* device_handle_find returns for its name.
C1_IterFind ==
    NamesUnique =>
        \A i \in 1..Len(Iterated) :
            device_handle_find(cdh_name[Iterated[i]]) = Iterated[i]

\* two handles are left after the head of a longer queue was removed
C1_Witness ==
    /\ call.op = "free"
    /\ Len(call.before) = 3
    /\ call.before[1] = call.dh
    /\ Len(Iterated) = 2
    /\ NamesUnique
    /\ \A h \in alloc : cdh_name[h] # call.name

\* C7: a handle's counter equals the number of get-and-increment calls made
\* on it; a call returns the number of earlier calls on that handle (the
\* k-th returns k-1) and leaves the counter of every other handle as it was.
C7_MsgId ==
    /\ \A h \in alloc : cdh_msg_id[h] = ngetinc[h]
    /\ call.op = "msg_id_getinc" =>
          /\ call.ret = ngetinc[call.dh] - 1
          /\ \A g \in Handles \ {call.dh} : cdh_msg_id[g] = call.before[g]

\* the third call on one handle returned 2 while another handle stands at 1
C7_Witness ==
    /\ call.op = "msg_id_getinc"
    /\ call.ret = 2
    /\ \E g \in alloc \ {call.dh} : cdh_msg_id[g] = 1

\* C8: after device_handle_conn_state_set took a handle from CS_CLOSED to
\* another state, the handle's logmsg is NULL.
C8_LeaveClosed ==
    (call.op = "conn_state_set" /\ call.from = "CS_CLOSED" /\ call.state # "CS_CLOSED")
        => cdh_logmsg[call.dh] = NoStr

\* a handle with a failure reason stored has just left CS_CLOSED
C8_Witness ==
    /\ call.op = "conn_state_set"
    /\ call.from = "CS_CLOSED"
    /\ call.state = "CS_CONNECTING"
    /\ call.logmsg = "timeout"

\* C5: every call of the provider returns with the recursion counter at the
\* value it had when the call was entered, and the counter is 0 whenever no
\* call is in progress.
C5_CounterRestored ==
    /\ call.op = "yang_mount" => call.exit = call.entry
    /\ mstack = <<>> => recursion = 0

\* a call whose clicon_rpc_get2 failed has returned
C5_Witness ==
    /\ call.op = "yang_mount"
    /\ call.path = "failed"
    /\ call.fetched
    /\ call.ret = -1

\* C6: a call entered while another call's fetch is in progress returns 0 at
\* once with no schema and without a fetch (so no two fetches are ever in
\* progress); the outer call then returns with the counter at zero, and
\* with the wrapped module-set when its reply holds one.
C6_NestedCall ==
    /\ Len(mstack) <= 1
    /\ (call.op = "yang_mount" /\ call.depth > 0)
          => /\ call.path = "recursion"
             /\ call.ret = 0
             /\ call.yanglib = "none"
             /\ ~call.fetched
    /\ (call.op = "yang_mount" /\ call.nested > 0)
          => /\ call.depth = 0
             /\ call.exit = 0
             /\ recursion = 0
             /\ call.path = "module-set" => (call.ret = 0 /\ call.yanglib = "mount")

\* an outer call that was re-entered during its fetch has returned a schema
C6_Witness ==
    /\ call.op = "yang_mount"
    /\ call.nested > 0
    /\ call.path = "module-set"
    /\ call.ret = 0

ModuleNames(kids) ==
    {kids[i].name : i \in {j \in 1..Len(kids) : kids[j].tag = "module"}}

\* C9: Append(X) onto a stored inventory S returns 0 and, module by module
\* of X: a module whose name S lacks is added behind the children of S; a
\* module whose name S has stands afterwards, at the place of the stored
\* one, with the content X gives it (so nothing changes when the two were
\* equal).  Every child of S whose name X does not mention is unchanged,
\* and nothing else is added.
C9_AppendPerModule ==
    (call.op = "yang_lib_append" /\ ~call.before.null /\ ~call.arg.null /\ call.arg.modset)
    => LET S == call.before.kids
           X == call.arg.kids
           T == cdh_yang_lib[call.dh].kids
       IN /\ call.ret = 0
          /\ Len(T) = Len(S) + Cardinality(ModuleNames(X) \ ModuleNames(S))
          /\ \A i \in 1..Len(S) :
                IF S[i].tag = "module" /\ S[i].name \in ModuleNames(X)
                THEN T[i] \in Range(X) /\ T[i].tag = "module" /\ T[i].name = S[i].name
                ELSE T[i] = S[i]
          /\ \A i \in 1..Len(X) :
                (X[i].tag = "module" /\ X[i].name \notin ModuleNames(S))
                    => \E j \in (Len(S) + 1)..Len(T) : T[j] = X[i]

\* one Append replaced the content of a stored module and added a new one
C9_Witness ==
    /\ call.op = "yang_lib_append"
    /\ call.before = ModSet(<<Module("A", 1)>>)
    /\ call.arg = ModSet(<<Module("B", 2), Module("A", 2)>>)
    /\ cdh_yang_lib[call.dh] = ModSet(<<Module("A", 2), Module("B", 2)>>)

\* C10: an Append(X) that directly follows an Append(X) on the same handle
\* leaves the stored inventory as the first Append(X) left it.
C10_AppendIdempotent ==
    [][(/\ call.op = "yang_lib_append"
        /\ call'.op = "yang_lib_append"
        /\ call'.dh = call.dh
        /\ call'.arg = call.arg)
       => cdh_yang_lib'[call.dh] = cdh_yang_lib[call.dh]]_vars

\* an Append(X) that changed a stored inventory; X is well-formed
C10_Witness ==
    /\ call.op = "yang_lib_append"
    /\ call.arg \in Inventories
    /\ ~call.before.null
    /\ cdh_yang_lib[call.dh] # call.before
    /\ cdh_yang_lib[call.dh] # call.arg


(* Grammars of devices: what the claims speak of, read from the state. *)

\* the devices of the shallow list that the selector of the last call matches
Matched == SelectSeq(Devices, LAMBDA d : backend[d].listed /\ fnmatch(call.pattern, d))

\* the grammar named mountpoint-<d> exists / its top-level parse tree
Synthesized(d) == cligen_ph_find(ph_list, TreeName(d)) # 0
Grammar(d) == cligen_ph_parsetree_get(ph_list, cligen_ph_find(ph_list, TreeName(d)))

\* the last call was the resolver, for `mountpoint` and with a selector,
\* and no library call failed in it
Resolved ==
    /\ call.op = "treeref_wrap"
    /\ call.name = "mountpoint"
    /\ call.pattern # NoStr
    /\ call.retval # -1

\* references held on a yang spec: the one of yspec_new and one for every
\* yang_ref_inc (ys_ref counts from 0)
References(y) == ys_ref[y] + 1
Bound(y) == {d \in DOMAIN mounts : mounts[d] = y}

\* C2: two devices with tree-equal yang-libraries whose grammars both exist
\* are mounted on the same yang spec, and the references held on that spec
\* are as many as the devices mounted on it.
C2_SharedSpec ==
    \A a, b \in DOMAIN backend :
        (/\ a # b
         /\ Synthesized(a) /\ Synthesized(b)
         /\ xml_tree_equal(backend[a].lib, backend[b].lib))
            => /\ mounts[a] # NULL
               /\ mounts[a] = mounts[b]
               /\ References(mounts[a]) = Cardinality(Bound(mounts[a]))

\* C3: when the resolver is called for `mountpoint` with a selector that
\* matches at least one device, no library call fails, and every matched
\* device has a grammar whose top level equals that of the first matched
\* device, the resolver returns 1 and hands back mountpoint-<first matched>.
C3_EqualGrammars ==
    (/\ Resolved
     /\ Matched # <<>>
     /\ \A i \in 1..Len(Matched) :
            Synthesized(Matched[i]) /\ Grammar(Matched[i]) = Grammar(Matched[1]))
        => /\ call.retval = 1
           /\ call.namep = TreeName(Matched[1])

\* the selector matched two devices, the second grammar was compared with
\* the first and found equal
C3_Witness ==
    /\ Resolved
    /\ Len(Matched) = 2
    /\ \A i \in 1..2 : Synthesized(Matched[i]) /\ Grammar(Matched[i]) = Grammar(Matched[1])
    /\ call.retval = 1
    /\ call.namep = TreeName(Matched[1])

\* C4: when the resolver is called for `mountpoint` and the grammar of some
\* matched device differs at top level from the grammar of the first matched
\* device, the resolver hands back no name, an empty grammar named
\* `mountpoint` exists afterwards, and the resolver returns 0.
C4_DifferingGrammars ==
    (/\ Resolved
     /\ \E i \in 1..Len(Matched) :
            /\ Synthesized(Matched[1]) /\ Synthesized(Matched[i])
            /\ Grammar(Matched[i]) # Grammar(Matched[1]))
        => /\ call.namep = NoTree
           /\ cligen_ph_find(ph_list, <<"mountpoint">>) # 0
           /\ cligen_ph_parsetree_get(ph_list, cligen_ph_find(ph_list, <<"mountpoint">>)) = EmptyPt
           /\ call.retval = 0

\* the capability b with everything from its first `?` onward removed
CapabilityBase(b) ==
    IF index(b, "?", 1) = 0 THEN b ELSE SubSeq(b, 1, index(b, "?", 1) - 1)

\* C11: device_handle_capabilities_find returns 1 exactly when some stored
\* capability, cut at its first `?`, equals the name asked for.
C11_CapabilityContains ==
    call.op = "capabilities_find" =>
        (call.ret = 1 <=>
            \E i \in 1..Len(cdh_xcaps[call.dh].caps) :
                CapabilityBase(cdh_xcaps[call.dh].caps[i]) = call.name)

\* the fields of a handle are those of a handle just created
Fresh(dh) ==
    /\ cdh_conn_state[dh] = "CS_CLOSED"
    /\ cdh_msg_id[dh] = 0
    /\ cdh_tid[dh] = 0
    /\ cdh_logmsg[dh] = NoStr
    /\ cdh_yang_lib[dh] = NullLib
    /\ cdh_outmsg1[dh] = NoMsg
    /\ cdh_outmsg2[dh] = NoMsg
    /\ cdh_socket[dh] = -1
    /\ cdh_sockerr[dh] = -1

\* C12 as stated: the handle device_handle_new returns is Closed with
\* message-id 0 and transaction-id 0, has no failure reason, no yang-library,
\* no pending message and both sockets -1, and device_handle_find returns it
\* for its name.
C12_CreateFind ==
    call.op = "new" =>
        /\ Fresh(call.dh)
        /\ device_handle_find(call.name) = call.dh

\* C12, amended: the same, where device_handle_find returns the new handle
\* when no live handle had the name before the call.
C12_CreateInitial ==
    call.op = "new" =>
        /\ call.dh \in alloc
        /\ Fresh(call.dh)
        /\ call.unique => device_handle_find(call.name) = call.dh

\* a third handle was created under a name of its own
C12_Witness ==
    /\ call.op = "new"
    /\ call.unique
    /\ Len(Iterated) = 3
    /\ Iterated[3] = call.dh
    /\ device_handle_find(call.name) = call.dh

\* the names were pairwise different before the handle of the last call
\* was removed
UniqueBeforeFree ==
    /\ NamesUnique
    /\ \A h \in alloc : cdh_name[h] # call.name

\* C13: after device_handle_free of a handle (all names different),
\* device_handle_find of its name returns NULL, and the other handles are
\* the ones iterated, in the order they had before, each found by its name.
C13_Remove ==
    (call.op = "free" /\ UniqueBeforeFree) =>
        /\ device_handle_find(call.name) = NULL
        /\ Iterated = SelectSeq(call.before, LAMBDA h : h # call.dh)
        /\ alloc = Range(call.before) \ {call.dh}
        /\ \A h \in alloc : device_handle_find(cdh_name[h]) = h

\* the middle one of three handles was removed
C13_Witness ==
    /\ call.op = "free"
    /\ UniqueBeforeFree
    /\ Len(call.before) = 3
    /\ call.before[2] = call.dh
    /\ Iterated = <<call.before[1], call.before[3]>>

\* C14: device_handle_free_all ends, whatever the number of handles, with
\* the store empty: device_handle_each from NULL returns NULL at once and
\* device_handle_find returns NULL for every name.
C14_Clear ==
    call.op = "free_all" =>
        /\ cdh_list = NULL
        /\ alloc = {}
        /\ device_handle_each(NULL) = NULL
        /\ \A name \in Names : device_handle_find(name) = NULL

\* three handles were in the store when it was cleared
C14_Witness ==
    /\ call.op = "free_all"
    /\ Len(call.before) = 3
    /\ device_handle_each(NULL) = NULL

\* C15: iteration with device_handle_each from NULL visits every live handle
\* exactly once and then returns NULL, in the order of creation: a handle
\* created is visited after all those already there, and a removal leaves
\* the others in the order they had.
C15_IterationOrder ==
    /\ [](/\ Range(Iterated) = alloc
          /\ Len(Iterated) = Cardinality(alloc))
    /\ [][/\ call'.op = "new" => Iterated' = Append(Iterated, call'.dh)
          /\ call'.op = "free" => Iterated' = SelectSeq(Iterated, LAMBDA h : h # call'.dh)
          /\ call'.op = "free_all" => Iterated' = <<>>]_vars

\* three handles are visited in an order that is not the order of their
\* addresses, the one created last at the end
C15_Witness ==
    /\ call.op = "new"
    /\ Len(Iterated) = 3
    /\ Iterated[3] = call.dh
    /\ Iterated[1] > Iterated[3]

\* C16: device_handle_outmsg_set of slot 1 or 2 puts the message in that
\* slot, where device_handle_outmsg_get reads it; what the slot held is
\* discarded; the other slot, and the slots of other handles, are as before.
C16_OutmsgSet ==
    /\ (call.op = "outmsg_set" /\ call.nr \in {1, 2}) =>
           /\ call.ret = 0
           /\ device_handle_outmsg_get(call.dh, call.nr) = call.cb
           /\ call.freed = (IF call.nr = 1 THEN call.before1 ELSE call.before2)[call.dh]
           /\ call.nr = 1 => cdh_outmsg2 = call.before2
           /\ call.nr = 2 => cdh_outmsg1 = call.before1
           /\ \A h \in alloc \ {call.dh} :
                 cdh_outmsg1[h] = call.before1[h] /\ cdh_outmsg2[h] = call.before2[h]
    /\ (call.op = "outmsg_get" /\ call.nr = 1) => call.ret = cdh_outmsg1[call.dh]
    /\ (call.op = "outmsg_get" /\ call.nr = 2) => call.ret = cdh_outmsg2[call.dh]

\* slot 2, holding one message, was set to another while slot 1 held its own
C16_Witness ==
    /\ call.op = "outmsg_set"
    /\ call.nr = 2
    /\ call.cb = "commit"
    /\ call.freed = "close-session"
    /\ cdh_outmsg1[call.dh] = "close-session"
    /\ cdh_outmsg2[call.dh] = "commit"

\* C17: when both slots of a handle hold a pending message, storing a
\* further message on the handle is rejected and both slots keep what
\* they hold.
C17_ThirdMessage ==
    (/\ call.op = "outmsg_set"
     /\ call.cb # NoMsg
     /\ call.before1[call.dh] # NoMsg
     /\ call.before2[call.dh] # NoMsg)
        => /\ call.ret = -1
           /\ call.freed = NoMsg
           /\ cdh_outmsg1 = call.before1
           /\ cdh_outmsg2 = call.before2

(* C18: every connection-state transition on a handle stamps its state-entry
   timestamp, and over a sequence of transitions on one handle the timestamp
   never decreases: a call of the connection-state setter leaves the handle
   with the time just read and with a timestamp not below the one it had *)
C18_TimestampMonotone ==
    [][ConnStateSetCall =>
           /\ cdh_conn_time'[call'.dh] = now
           /\ cdh_conn_time'[call'.dh] >= cdh_conn_time[call'.dh]]_vars

\* the first half alone: the setter stamps the time read from the clock
C18_Stamped ==
    [][ConnStateSetCall => cdh_conn_time'[call'.dh] = now]_vars

\* position of a state in the order Closed, Connecting, SchemaList, SchemaOne,
\* OpenSync, Open; 0 for Wresp and Closing, which are outside it
LinearPos(state) ==
    IF \E i \in 1..6 : ConnStates[i] = state
    THEN CHOOSE i \in 1..6 : ConnStates[i] = state
    ELSE 0

\* the state changes of the device state machine
TransitionAllowed(from, to) ==
    \/ from = to
    \/ LinearPos(from) > 0 /\ LinearPos(to) = LinearPos(from) + 1
    \/ from = "CS_OPEN" /\ to = "CS_WRESP"
    \/ from = "CS_WRESP" /\ to = "CS_OPEN"
    \/ to = "CS_CLOSED"

(* C19: the connection state of a handle changes only one step upward along
   Closed, Connecting, SchemaList, SchemaOne, OpenSync, Open, between Open and
   Wresp, or to Closed from any state: no call of the connection-state setter
   makes any other change *)
C19_LinearTransitions ==
    call.op = "conn_state_set" => TransitionAllowed(call.from, call.state)

(* C20: setting the inventory of a handle to a non-null tree whose top level
   is not a module-set fails as an error outcome, and the inventory stored
   before the call is still the one stored after it *)
C20_SetValidates ==
    (call.op \in {"yang_lib_set", "abort"} /\ ~call.arg.null /\ ~call.arg.modset)
        => /\ call.op = "yang_lib_set"
           /\ call.ret = -1
           /\ cdh_yang_lib[call.dh] = call.before

\* an Append whose argument has no module-set returns -1 and stores nothing
AppendRejectsNoModuleSet ==
    (call.op = "yang_lib_append" /\ ~call.arg.null /\ ~call.arg.modset)
        => /\ call.ret = -1
           /\ cdh_yang_lib[call.dh] = call.before

(* C21: after any sequence of Set and Append calls on a handle, an inventory
   that is stored has a module-set element at its top level; an Append whose
   argument has no module-set returns an error and leaves the stored
   inventory as it was, also when none was stored *)
C21_TopLevelModuleSet ==
    /\ \A cdh \in alloc : ~cdh_yang_lib[cdh].null => cdh_yang_lib[cdh].modset
    /\ AppendRejectsNoModuleSet

\* the listed devices a selector covers
Covered(pattern) == {d \in DOMAIN backend : backend[d].listed /\ fnmatch(pattern, d)}

\* the grammars named mountpoint-<device> of a grammar runtime, in its order
DeviceTrees(ph) == SelectSeq(ph, LAMBDA e : e.name # <<"mountpoint">>)

\* the specs and what is held on them
Specs == <<mounts, ys_ref, ys_mods, nspec>>

\* what an eager expansion called in this state would leave
Expanded == controller_cligen_gentree_all(Locals("none"))

(* C22: ensuring the grammar of a device is idempotent.  When every device a
   resolver invocation covers has its grammar mountpoint-<device> already,
   the invocation leaves the device grammars, the specs, the devices mounted
   on them and every reference count as they were; and so would an eager
   expansion, called where every listed device has its grammar *)
C22_EnsureIdempotent ==
    /\ [][(/\ started = "yes"
           /\ call'.op = "treeref_wrap"
           /\ call'.pattern # NoStr
           /\ Covered(call'.pattern) \subseteq call'.had)
          => /\ DeviceTrees(ph_list') = DeviceTrees(ph_list)
             /\ Specs' = Specs]_vars
    /\ []((\A d \in Covered("*") : Synthesized(d))
            => /\ Expanded.ph = ph_list
               /\ <<Expanded.mounts, Expanded.ref, Expanded.mods, Expanded.nspec>> = Specs)

\* the resolver was called for two devices that both had their grammar, after
\* a call that had made them
C22_Witness ==
    /\ Resolved
    /\ Cardinality(Covered(call.pattern)) = 2
    /\ Covered(call.pattern) \subseteq call.had
    /\ nspec > 0

(* C23: the grammars of d1 and d2 were synthesized from equal inventories and
   a module is then added to the inventory of d2: the next resolver
   invocation whose selector matches both devices returns 0, hands back no
   grammar of a device and leaves the empty grammar named mountpoint
   installed *)
C23_ChangedInventory ==
    [][(/\ call.op = "backend_change"
        /\ call.dev = "d2"
        /\ call.from = backend["d1"].lib
        /\ Synthesized("d1") /\ Synthesized("d2")
        /\ call'.op = "treeref_wrap"
        /\ Covered(call'.pattern) = {"d1", "d2"}
        /\ call'.retval # -1)
       => /\ call'.retval = 0
          /\ call'.namep = NoTree
          /\ cligen_ph_find(ph_list', <<"mountpoint">>) # 0
          /\ cligen_ph_parsetree_get(ph_list', cligen_ph_find(ph_list', <<"mountpoint">>))
                 = EmptyPt]_vars

\* the same call hands back the grammar of d1, made before the change
C23_Stale ==
    [][(/\ call.op = "backend_change"
        /\ call.dev = "d2"
        /\ call.from = backend["d1"].lib
        /\ Synthesized("d1") /\ Synthesized("d2")
        /\ call'.op = "treeref_wrap"
        /\ Covered(call'.pattern) = {"d1", "d2"}
        /\ call'.retval # -1)
       => /\ call'.retval = 1
          /\ call'.namep = TreeName("d1")
          /\ ph_list' = ph_list]_vars

\* the segments /devices/device occur somewhere in the xpath
ContainsDevices(xpath) ==
    \E i \in 1..(Len(xpath) - 1) : xpath[i] = "devices" /\ xpath[i + 1] = "device"

\* a library call failed before the provider came to look at the xpath
FailedEarly == call.path \in {"cbuf_new", "xml_nsctx_node", "xml2xpath"}

\* the xpath of the call that is now in its fetch
Fetching == mstack[Len(mstack)].xpath

(* C24: when the XPath of the mount-point node begins with /rpc-reply/, the
   provider returns success with no schema and issues no fetch to the
   backend *)
C24_RpcReply ==
    /\ (call.op = "yang_mount" /\ call.xpath[1] = "rpc-reply" /\ ~FailedEarly)
          => (call.ret = 0 /\ call.yanglib = "none" /\ ~call.fetched)
    /\ call.op = "rpc_get2" => Fetching[1] # "rpc-reply"

(* C24 as the code has it: when /devices/device occurs nowhere in the XPath
   of the mount-point node, the provider issues no fetch and hands over no
   schema, and it returns success unless a library call failed before *)
C24_NotDevice ==
    /\ (call.op = "yang_mount" /\ ~ContainsDevices(call.xpath))
          => /\ ~call.fetched
             /\ call.yanglib = "none"
             /\ ~FailedEarly => call.ret = 0
    /\ call.op = "rpc_get2" => ContainsDevices(Fetching)

\* the provider, called by the CLI on /rpc-reply/data, has returned no schema
C24_Witness ==
    /\ call.op = "yang_mount"
    /\ call.xpath = <<"rpc-reply", "data">>
    /\ call.depth = 0
    /\ call.entry = 0
    /\ call.path = "not-device"
    /\ call.ret = 0

(* C25: when the reply to the configuration fetch of the provider contains
   an rpc-error, the provider returns an error and hands over no schema; and
   a call that reaches the fetch issues one fetch, no other call any *)
C25_RpcError ==
    /\ []((call.op = "yang_mount" /\ call.path = "rpc-error")
             => (call.ret = -1 /\ call.yanglib = "none" /\ call.fetched))
    /\ [][nfetch' = nfetch + (IF Len(mstack') > Len(mstack) THEN 1 ELSE 0)]_vars
    /\ [](call.op = "yang_mount" => (call.fetched <=> call.path \notin
             {"recursion", "not-device", "cbuf_new", "xml_nsctx_node", "xml2xpath"}))

\* a call of the CLI has fetched, got an rpc-error, and returned; a call
\* nested in its fetch had returned without fetching
C25_Witness ==
    /\ call.op = "yang_mount"
    /\ call.path = "rpc-error"
    /\ call.depth = 0
    /\ call.nested > 0
    /\ nfetch = 1

(* C26: on CLI exit, when a transaction-notification socket was stored at
   startup, the close-session request is sent on that socket and not on the
   general client socket, and afterwards that socket is closed and its stored
   entry removed *)
C26_CloseOnNotifySocket ==
    (call.op = "exit" /\ call.s > 0 /\ call.retval = 0)
        => /\ call.sent = call.s
           /\ call.s \notin fds
           /\ notify_socket = 0

\* the second half alone: the socket is closed and its entry removed
C26_Closed ==
    (call.op = "exit" /\ call.s > 0 /\ call.retval = 0)
        => (call.s \notin fds /\ notify_socket = 0)

\* controller_cli_start has just returned 0
StartedOk == call.op = "start" /\ call.retval = 0

(* C27: when the CLI is started with -g, after startup succeeds every device
   known to the backend has its grammar mountpoint-<device> installed *)
C27_AllDevices ==
    (StartedOk /\ gentree_expand_all = 1)
        => \A d \in DOMAIN backend : backend[d].listed => Synthesized(d)

(* C27 as the code has it: started with -g, after startup succeeds every
   device for which the backend has a yang-library has its grammar, and a
   device without one has none; without -g startup installs no grammar, and
   the grammar of a device first appears in a resolver call whose selector
   covers that device *)
C27_EagerExpansion ==
    /\ []((StartedOk /\ gentree_expand_all = 1)
             => \A d \in DOMAIN backend :
                    Synthesized(d) <=> (backend[d].listed /\ ~backend[d].lib.null))
    /\ []((call.op = "start" /\ gentree_expand_all = 0) => ph_list = <<>>)
    /\ [][\A d \in DOMAIN backend :
             (~Synthesized(d) /\ Synthesized(d)')
                 => \/ call'.op = "start" /\ gentree_expand_all = 1
                    \/ call'.op = "treeref_wrap" /\ d \in Covered(call'.pattern)]_vars

\* started with -g where d1 has a yang-library and d2, though listed, has none
C27_Witness ==
    /\ StartedOk
    /\ gentree_expand_all = 1
    /\ Synthesized("d1")
    /\ backend["d2"].listed
    /\ ~Synthesized("d2")

(* C28: an explicit disconnect destroys the device handle: after
   device_handle_disconnect has succeeded on a handle, the handle is no
   longer in the store and Find by its name returns absent *)
C28_DisconnectDestroys ==
    (call.op = "disconnect" /\ call.ret = 0)
        => /\ call.dh \notin alloc
           /\ device_handle_find(call.name) = NULL

\* what a disconnect that succeeds does leave: the handle in the store, found
\* by its name, with its socket closed
C28_DisconnectCloses ==
    (call.op = "disconnect" /\ call.ret = 0)
        => /\ device_handle_find(call.name) = call.dh
           /\ cdh_socket[call.dh] = -1

(* C29: creating a handle with the name of a live handle is surfaced as an
   error and never swallowed: no such call returns a handle, and the store
   never holds two live handles of the same name *)
C29_NameCollision ==
    /\ NamesUnique
    /\ call.op = "new" => call.unique

\* The device selector in the words of the claim: the value of the field
\* `name` of the edit context if there is one, else the token that follows
\* the first token `device`, NoStr where there is neither
NameFields(cvv) == {k \in 1..Len(cvv) : cvv[k].name = "name"}
DeviceTokens(cvt) == {i \in 1..Len(cvt) : cvt[i] = "device"}
First(S) == CHOOSE i \in S : \A j \in S : i <= j
Selector(cvv, cvt) ==
    IF NameFields(cvv) # {} THEN cvv[First(NameFields(cvv))].val
    ELSE IF DeviceTokens(cvt) = {} THEN NoStr
    ELSE IF First(DeviceTokens(cvt)) = Len(cvt) THEN NoStr
    ELSE cvt[First(DeviceTokens(cvt)) + 1]

(* C30: for the reference mountpoint the device selector is the value of the
   edit-context field `name` whenever that field exists, else the token that
   follows the first token `device`; where neither yields a value the
   resolver returns 0, makes no request to the backend and leaves the grammar
   runtime as it was *)
C30_DeviceSelector ==
    /\ []((call.op = "treeref_wrap" /\ call.name = "mountpoint")
             => call.pattern = Selector(call.cvv_edit, call.cvt))
    /\ [][(/\ started = "yes"
           /\ call'.op = "treeref_wrap"
           /\ call'.name = "mountpoint"
           /\ Selector(call'.cvv_edit, call'.cvt) = NoStr)
          => /\ call'.retval = 0
             /\ call'.namep = NoTree
             /\ UNCHANGED <<ph_list, Specs, client_socket, fds, nfail>>]_vars

\* the field `name` was taken though the tokens say `device d1`, and the
\* grammar of d2 was handed back
C30_Witness ==
    /\ call.op = "treeref_wrap"
    /\ call.cvt = <<"device", "d1">>
    /\ NameFields(call.cvv_edit) # {}
    /\ call.pattern = "d2"
    /\ call.namep = TreeName("d2")

(* C31: the one-level equivalence check reports two parse trees equal only
   if they have the same number of top-level nodes and the nodes at every
   index are pairwise equal; trees of different length are never reported
   equal, whichever is the longer *)
C31_OneLevelEquivalence ==
    (call.op = "pt_eq1" /\ call.ret = 0)
        => /\ Len(call.pt1.vec) = Len(call.pt2.vec)
           /\ \A i \in 1..Len(call.pt1.vec) : call.pt1.vec[i] = call.pt2.vec[i]

\* what does hold: trees reported equal agree at every index of the first,
\* an index the second does not have counting as a NULL object there
C31_FirstLengthOnly ==
    (call.op = "pt_eq1" /\ call.ret = 0)
        => \A i \in 0..(Len(call.pt1.vec) - 1) :
               pt_vec_i_get(call.pt1, i) = pt_vec_i_get(call.pt2, i)

(* C32: after any number of resolver invocations that take the fallback
   path, the grammar runtime holds at most one grammar named mountpoint: the
   fallback installs the empty grammar only when none of that name is there *)
C32_SingleFallback == Dummies(ph_list) <= 1

(* C33: whenever the resolver hands back a substituted grammar name, a
   grammar of exactly that name is in the grammar runtime, whatever devices
   the selector matched and whatever the backend replied for them (a device
   of the shallow list may have no yang-library in the full reply) *)
C33_HandedBackNameExists ==
    (Resolved /\ call.namep # NoTree) => cligen_ph_find(ph_list, call.namep) # 0

(* C34: a handle's failure reason (logmsg) changes only in
   device_handle_logmsg_set or in a device_handle_conn_state_set that leaves
   CS_CLOSED for another state: setting CS_CLOSED on a handle that is in
   CS_CLOSED keeps the stored reason, and so does every transition out of a
   state other than CS_CLOSED *)
C34_FailureReasonFrame ==
    [][\A h \in alloc :
          cdh_logmsg'[h] # cdh_logmsg[h]
              => /\ call'.dh = h
                 /\ \/ call'.op = "logmsg_set"
                    \/ /\ call'.op = "conn_state_set"
                       /\ call'.from = "CS_CLOSED"
                       /\ call'.state # "CS_CLOSED"]_vars

(* C35: on every call of device_handle_disconnect that sequences of Create,
   Connect and Disconnect on a handle reach, the assertion made for a
   sub-process (pid non-zero and socket not -1) holds, so that no call
   aborts; and a Disconnect that returns 0 leaves the socket at -1, the
   stderr socket at -1 and the pid at 0 *)
C35_DisconnectAssertion ==
    /\ call.op # "abort"
    /\ (call.op = "disconnect" /\ call.type # "CLIXON_CLIENT_IPC") => call.socket # -1
    /\ (call.op = "disconnect" /\ call.ret = 0)
           => /\ cdh_socket[call.dh] = -1
              /\ cdh_sockerr[call.dh] = -1
              /\ cdh_pid[call.dh] = 0

(* C36: when the synthesis of a device's grammar has failed after
   device_shared_yspec_xml chose the yang spec of another device
   (yang_lib2yspec or controller_mount_yspec_set failed), the references
   held on every yang spec that devices are mounted on are still as many as
   the devices mounted on it *)
C36_FailureKeepsReferences ==
    (call.op = "treeref_wrap" /\ call.retval = -1)
        => \A y \in 1..nspec :
               Bound(y) # {} => References(y) = Cardinality(Bound(y))

=============================================================================
